---- MODULE Spec2Model ----
(***************************************************************************)
(* Vacuum-zone transition sequencing of the CMS beamline                   *)
(* (src/startup/81-beam.py, class CMS_Beamline): the plans _pumpSample     *)
(* (Evacuate) and _ventSample (Vent) of the sample zone.                   *)
(*                                                                         *)
(* Each plan is a generator: every "yield from bps.mov(...)" is one step   *)
(* that the run engine executes; the code between two yields (reads of     *)
(* status and pressure, loop tests) runs together with the step before it. *)
(* A plan can be stopped by the run engine between two steps.              *)
(*                                                                         *)
(* Pressures are in tenths of a mbar (0.7 mbar is 7, 500 mbar is 5000), so *)
(* that the float comparisons of the code are integer comparisons here.    *)
(* A read of a status or of a pressure returns any value of its small set: *)
(* the hardware is not under the program's control.                        *)
(*                                                                         *)
(* The second part models the transmission control of class CMSBeam:       *)
(* setTransmission (filter box of 8 foils), setAbsorber and absorber (Nb    *)
(* absorber on the motor armr). These are plain synchronous functions; a    *)
(* retry is a recursive call, modelled as one more pass of the same action. *)
(* Transmissions of the filter box are fixed-point numbers in units of      *)
(* 1/TScale; energies are in eV; positions of armr are in tenths of a mm.   *)
(***************************************************************************)
EXTENDS Integers, Sequences, FiniteSets, TLC

\* ------------------------------------------------------------ bounds
\* The loop counters of the model saturate here (the code has no counters).
MaxPolls == 3

\* ------------------------------------------------- program constants
\* while self._PV_Smpl_pressure.get() > 500            (tenths of a mbar)
CoarseThreshold == 5000
\* def _pumpSample(self, threshold=0.7)
DefaultThreshold == 7
\* while self._PV_Smpl_pressure.get() < 800
SoftVentThreshold == 8000
\* while self._PV_Smpl_pressure.get() < 950
FullVentThreshold == 9500
\* diffPressure: Smpl_pressure < 1 and Det_pressure < 1
VacuumLimit == 10
\* diffPressure: Smpl_pressure > 950 and Det_pressure > 950
AirLimit == 9500
\* _gateIn: bps.mov(gatex, 0)
GateInPosition == 0
\* _gateOut: bps.mov(gatex, -95)
GateOutPosition == -95
\* diffPressure falls off its last elif without a return: Python's None
NoClass == -1

\* ------------------------------------------------------ input values
\* The readings the pressure gauges can return, around every threshold.
SmplReadings == {5, 7, 1000, 5000, 5010, 8000, 9500, 9510}
DetReadings == {5, 1000, 9510}
\* The threshold arguments _pumpSample is called with.
ThresholdArgs == {5, DefaultThreshold}

VARIABLES
    vent_Smpl,          \* TriState _vent_Smpl: the state last commanded
    pump_Smpl,          \* TriState _pump_Smpl
    pump_Det,           \* TriState _pump_Det
    GV_SAXS,            \* TwoButtonShutterNC _GV_SAXS
    gatex,              \* position of the window gate actuator
    pump2_toggle,       \* _pump2_toggle: last value written
    pump2_state,        \* _pump2_state: last value read
    WAXS_outlet_toggle, \* _WAXS_outlet_toggle: last value written
    WAXS_outlet_sts,    \* _WAXS_outlet_sts: last value read
    Smpl_pressure,      \* _PV_Smpl_pressure: last value read
    Det_pressure,       \* _PV_Det_pressure: last value read
    plan,               \* the plan running, or the last one run
    pc,                 \* the next step of the running plan; "idle" if none
    threshold,          \* the threshold argument of the _pumpSample run
    result,             \* how the last plan ended
    guardClass,         \* what diffPressure returned to the last _pumpSample
    order,              \* history: the run's events, each at its first occurrence
    opensAfterCoarse,   \* history: Open writes to _pump_Smpl after the 500 mbar loop ended
    polls,              \* history: passes of the loop the plan is in (saturating)
    gateCmd,            \* history: the last move a plan commanded to gatex
    gvCmd,              \* history: the last state a plan commanded to _GV_SAXS
    energy,             \* CMSBeam.energy(): the beam energy
    filters,            \* Fltr:1..8 Pos-Sts: the foils in the beam (1) or out (0)
    armr,               \* armr.position
    bpc,                \* the CMSBeam function running; "idle" if none
    tEnergy,            \* setTransmission: energy_keV, the energy the request read
    tTarget,            \* setTransmission: the transmission argument
    tRetries,           \* setTransmission: the retries argument of the current pass
    tRetriesArg,        \* history: the retries argument of the request
    tPasses,            \* history: foil-setting passes of the request
    tFoilCmds,          \* history: foil commands (caput) of the request
    tSel,               \* setTransmission: <<N_Nb, N_Al>> of the last scan
    tPattern,           \* setTransmission: the list N handed to set_attenuation_filters
    tReport,            \* the messages the request printed
    tOutcome,           \* how the last CMSBeam call ended
    tReturn,            \* what the last setTransmission returned
    aFn,                \* the absorber function called last
    aEnergy,            \* energy_keV, the energy the absorber function read
    aSlot,              \* setAbsorber: the slot argument, int(slot)
    aSlotFrac,          \* setAbsorber: the slot argument's fraction, in 1e-4
    aRetries,           \* setAbsorber: the retries argument of the current pass
    aRetriesArg,        \* history: the retries argument of the request
    aMoves,             \* history: armr.move calls of the request
    aLookups,           \* history: the indices the request used on the table
    aDepth,             \* history: calls of setAbsorber waiting for an inner call
    aReport,            \* the messages the request printed
    aOutcome,           \* how the last absorber function ended
    aReturn,            \* what it returned to the caller; << >> for None
    rSlot,              \* absorber(): the slot computed from armr.position
    elements,           \* CMSBeam.elements: the beam-path elements, in list order
    screens,            \* FS:3, FS:4 Pos-Sts: the diagnostic screens' positions
    fpc,                \* fluxes(): "idle", or "loop" while the report is produced
    fVerbosity,         \* fluxes(): the verbosity argument
    fIdx,               \* fluxes(): the index of the next element of the loop
    fBeam,              \* fluxes(): beam
    fExpected,          \* fluxes(): flux_expected is a number (TRUE) or None (FALSE)
    fBlockSeen,         \* history: a state read by this report was "block"
    fRow,               \* the last row printed: <<path, an expected flux is shown>>
    fOutcome,           \* how the last report ended
    IV_SAXS,            \* BT:SAXS-IV:1: the state last commanded
    IV_KB,              \* Mir:KB-IV:1: the state last commanded
    pump1_toggle,       \* BT:SAXS-Pmp:1 Cmd:Enbl-Cmd: last value written
    pump1_state,        \* BT:SAXS-Pmp:1 Sts:Enbl-Sts: last value read
    cpc,                \* changePipe: the next step; "idle" if none
    cTries,             \* changePipe: tries
    cMaxTries,          \* changePipe: the max_tries argument
    cOutcome,           \* how the last changePipe ended
    pump_FS4,           \* TriState _pump_FS4: the state last commanded
    vFn,                \* _actuate_open or _actuate_close: the function called last
    vpc,                \* its next step; "idle" if none
    vTries,             \* tries
    vMaxTries,          \* the max_tries argument
    vCmd,               \* the command written last to the valve: "Opn" or "Cls"
    vStatus,            \* Pos-Sts: the value read last
    vWrites,            \* history: command writes of the call
    vReached,           \* history: a read of the call returned the commanded state
    vLate,              \* history: command writes of the call after such a read
    vOutcome,           \* how the call ended
    current_mode,       \* Beamline.current_mode
    mpc,                \* the mode switch in progress, at its next step; "idle" if none
    mFn,                \* the mode switch called last
    mEnded,             \* how it ended: "completed" or "early"; "running" before
    bsx,                \* bsx.user_readback.value - self.bsx_pos, in 0.01 mm
    shutter,            \* the experimental shutter
    detSel,             \* the detector chosen by detselect
    current_temp,       \* LinkamIOC._current_temp, in tenths of a degree
    target_temp,        \* LinkamIOC._target_temp, in tenths of a degree
    ramp_rate,          \* LinkamIOC._ramp_rate
    heating,            \* LinkamIOC._heating
    status,             \* the STATUS PV
    stop_poller,        \* LinkamIOC._stop_poller: the event is set
    poller_thread,      \* LinkamIOC._poller_thread: a thread, or 0 for None
    lpc,                \* each poller thread's position: "none" if it does not run
    ldiff,              \* each poller thread's local diff
    joining,            \* shutdown() waits in join
    settled             \* the clients and the operator have stopped writing

hw == <<vent_Smpl, pump_Smpl, pump_Det, GV_SAXS, gatex, pump2_toggle, WAXS_outlet_toggle>>
reads == <<pump2_state, WAXS_outlet_sts, Smpl_pressure, Det_pressure>>
ctl == <<plan, pc, threshold, result, guardClass>>
hist == <<order, opensAfterCoarse, polls, gateCmd, gvCmd>>
vacVars == <<hw, reads, ctl, hist>>
tVars == <<tEnergy, tTarget, tRetries, tRetriesArg, tPasses, tFoilCmds, tSel, tPattern, tReport, tOutcome, tReturn>>
aVars == <<aFn, aEnergy, aSlot, aSlotFrac, aRetries, aRetriesArg, aMoves, aLookups, aDepth, aReport, aOutcome,
           aReturn, rSlot>>
beamVars == <<energy, filters, armr, bpc, tVars, aVars>>
fluxVars == <<elements, screens, fpc, fVerbosity, fIdx, fBeam, fExpected, fBlockSeen, fRow, fOutcome>>
pipeVars == <<IV_SAXS, IV_KB, pump1_toggle, pump1_state, cpc, cTries, cMaxTries, cOutcome>>
valveVars == <<vFn, vpc, vTries, vMaxTries, vCmd, vStatus, vWrites, vReached, vLate, vOutcome>>
modeVars == <<current_mode, mpc, mFn, mEnded, bsx, shutter, detSel>>
linkamVars == <<current_temp, target_temp, ramp_rate, heating, status, stop_poller, poller_thread,
                lpc, ldiff, joining, settled>>
otherVars == <<pump_FS4, valveVars, modeVars, linkamVars>>
vars == <<vacVars, beamVars, fluxVars, pipeVars, otherVars>>

\* ------------------------------------------------------------ helpers
Note(o, e) == IF \E i \in 1..Len(o) : o[i] = e THEN o ELSE Append(o, e)

Pos(e) == IF \E i \in 1..Len(order) : order[i] = e
          THEN CHOOSE i \in 1..Len(order) : order[i] = e
          ELSE 0

Happened(e) == Pos(e) > 0

\* b did not happen, or a happened before it
Precedes(a, b) == Happened(b) => (Happened(a) /\ Pos(a) < Pos(b))

Bump(n) == IF n < MaxPolls THEN n + 1 ELSE n

\* CMS_Beamline.diffPressure
diffPressure(s, d) ==
    IF s < VacuumLimit /\ d < VacuumLimit THEN 0
    ELSE IF s > AirLimit /\ d > AirLimit THEN 3
    ELSE IF s > d THEN 1
    ELSE IF s < d THEN 2
    ELSE NoClass

\* Variant: only the both-in-vacuum class stops the plan.
GuardFails_vacuumOnly(c) == c = 0

\* if self.diffPressure(verbosity=0) != 1: return print(...)
GuardFails(c) == c # 1

\* ------------------------------------------- CMSBeam: constants, inputs
\* Fixed-point unit of the filter-box transmissions: 1 is 1e-4.
TScale == 10000
\* if energy_keV < 6.0 or energy_keV > 18.0                          (eV)
MinEnergy == 6000
MaxEnergy == 18000
\* def setTransmission(self, transmission, retries=3, tolerance=0.7, ...)
DefaultRetries == 3
\* tolerance=0.7, in tenths
ToleranceTenths == 7

\* The energies energy() returns: the two limits, three energies between
\* them, and one energy beyond each limit.
Energies == {5900, 6000, 10000, 13500, 17000, 18000, 18100}
\* The transmission arguments: accepted ones (1e-4 .. 1.0), one above 1.0
\* and one below 1e-10.
TargetArgs == {1, 17, 500, 5000, 10000, 20000, -5000}
RetriesArgs == {0, 1, DefaultRetries}
\* The foils that do not follow a command: none, one Nb foil, all of them.
StuckChoices == {{}, {5}, 1..8}

\* exp(-d_Nb / l_Nb) for one Nb foil of 0.1 mm, l_Nb the cubic fit of the
\* code at energy E, in units of 1/TScale.
FoilTrNb(E) ==
    CASE E = 6000 -> 0
      [] E = 10000 -> 13
      [] E = 13500 -> 550
      [] E = 17000 -> 2157
      [] E = 18000 -> 2699
      [] OTHER -> 0

\* exp(-d_Al / l_Al) for one Al foil of 0.25 mm, in units of 1/TScale.
FoilTrAl(E) ==
    CASE E = 6000 -> 6
      [] E = 10000 -> 1880
      [] E = 13500 -> 5032
      [] E = 17000 -> 7072
      [] E = 18000 -> 7465
      [] OTHER -> 0

Abs(x) == IF x < 0 THEN -x ELSE x

\* exp(-n * d / l) as the n-th power of the one-foil transmission
RECURSIVE FoilPow(_, _)
FoilPow(tr, n) == IF n = 0 THEN TScale ELSE (FoilPow(tr, n - 1) * tr) \div TScale

\* exp(-i * d_l_Nb) * exp(-j * d_l_Al)
FilterTransmission(E, nNb, nAl) ==
    (FoilPow(FoilTrNb(E), nNb) * FoilPow(FoilTrAl(E), nAl)) \div TScale

\* dev_ij of the k-th pass of the double loop: i = k div 16 (Nb), j = k mod 16 (Al)
Dev(E, target, k) == Abs(target - FilterTransmission(E, k \div 16, k % 16))

\* Variant: the largest deviation is kept instead of the smallest.
MinWith_largest(prev, d) == IF prev < 0 \/ d > prev THEN d ELSE prev

\* min(dev) after dev_ij was appended; prev < 0 stands for the empty list
MinWith(prev, d) == IF prev < 0 \/ d < prev THEN d ELSE prev

\* Variant: the pair is taken only when it is strictly better (first found).
Takes_strict(d, prev) == prev < 0 \/ d < prev

\* Variant: the test is made against the minimum before dev_ij was appended.
Takes_stale(d, prev) == prev < 0 \/ d = prev

\* if dev_ij == min(dev): N_Nb = i; N_Al = j
Takes(d, prev) == d = MinWith(prev, d)

\* One pass of the inner loop body on the scan state <<min(dev), k selected>>.
ScanPass(E, target, k, st) ==
    <<MinWith(st[1], Dev(E, target, k)),
      IF Takes(Dev(E, target, k), st[1]) THEN k ELSE st[2]>>

\* for j in np.arange(16): the inner loop at Nb count i, from Al count j on
RECURSIVE ScanAl(_, _, _, _, _)
ScanAl(E, target, i, j, st) ==
    IF j = 16 THEN st
    ELSE LET nxt == ScanPass(E, target, 16 * i + j, st)
         IN  IF nxt[1] >= 0 THEN ScanAl(E, target, i, j + 1, nxt) ELSE nxt

\* for i in np.arange(16): the outer loop from Nb count i on
RECURSIVE ScanNb(_, _, _, _)
ScanNb(E, target, i, st) ==
    IF i = 16 THEN st
    ELSE LET nxt == ScanAl(E, target, i, 0, st)
         IN  IF nxt[1] >= 0 THEN ScanNb(E, target, i + 1, nxt) ELSE nxt

\* <<N_Nb, N_Al>> after the double loop
Selected(E, target) ==
    LET k == ScanNb(E, target, 0, <<-1, 0>>)[2] IN <<k \div 16, k % 16>>

\* The double loop, run once for every energy and argument that reach it.
ScanResults ==
    {<<p[1], p[2], Selected(p[1], p[2])>> :
        p \in {q \in Energies \X TargetArgs :
                  ~(q[1] < MinEnergy \/ q[1] > MaxEnergy)
                  /\ ~(q[2] > TScale) /\ ~(q[2] < 1)}}

\* <<N_Nb, N_Al>> of the call at energy E with argument target
ScanResult(E, target) ==
    (CHOOSE r \in ScanResults : r[1] = E /\ r[2] = target)[3]

\* Variant: the bits are appended most significant first.
RECURSIVE Bits4_msbFirst(_, _)
Bits4_msbFirst(state, n) ==
    IF n = 0 THEN << >> ELSE Append(Bits4_msbFirst(state \div 2, n - 1), state % 2)

\* for i in np.arange(4): N.append(state % 2); state = int(state / 2)
RECURSIVE Bits4(_, _)
Bits4(state, n) ==
    IF n = 0 THEN << >> ELSE <<state % 2>> \o Bits4(state \div 2, n - 1)

\* The list N: four bits of N_Al, then four bits of N_Nb.
FoilPattern(nNb, nAl) == Bits4(nAl, 4) \o Bits4(nNb, 4)

\* calc_transmission_filters: N_Al = N[0] + 2 * N[1] + 4 * N[2] + 8 * N[3]
FoilsAl(N) == N[1] + 2 * N[2] + 4 * N[3] + 8 * N[4]
\* calc_transmission_filters: N_Nb = N[4] + 2 * N[5] + 4 * N[6] + 8 * N[7]
FoilsNb(N) == N[5] + 2 * N[6] + 4 * N[7] + 8 * N[8]

\* calc_transmission_filters: tr_tot = tr_Nb * tr_Al
calc_transmission_filters(N, E) == FilterTransmission(E, FoilsNb(N), FoilsAl(N))

\* set_attenuation_filters: each foil is commanded in (1) or out (0); a
\* stuck foil stays where it is.
FoilsAfter(old, N, stuck) == [i \in 1..8 |-> IF i \in stuck THEN old[i] ELSE N[i]]

\* abs(self.transmission(verbosity=0) - transmission) / transmission > tolerance
DeviationExceeds(readback, target) ==
    IF target > 0
    THEN Abs(readback - target) * 10 > ToleranceTenths * target
    ELSE FALSE

\* Variant: the function calls itself with the retries it was given.
RetriesLeft_same(r) == r

\* return self.setTransmission(transmission, retries=retries - 1, ...)
RetriesLeft(r) == r - 1

\* Variant: the supported range ends at 19 keV.
EnergySupported_to19(E) == ~(E < 6000 \/ E > 19000)

\* if energy_keV < 6.0 or energy_keV > 18.0: not supported
EnergySupported(E) == ~(E < MinEnergy \/ E > MaxEnergy)

\* the else branch of setTransmission: energy supported, 1e-10 <= transmission <= 1.0
TargetAccepted(target) == ~(target > TScale) /\ ~(target < 1)

\* ------------------------------------------- CMSBeam: the absorber
\* Positions of armr are in tenths of a millimetre.
\* self.armr_absorber_o = 1.3 - 3
ArmrOrigin == -17
\* self.armr_absorber_out = -55.1
ArmrOut == -551
\* armr_pos = self.armr_absorber_o + slot * 6
SlotPitch == 60
\* slot = np.floor((armr.position - self.armr_absorber_o - 0.1 + 6) / 6)
SlotMargin == 1
\* def setAbsorber(self, slot, retries=3, tolerance=0.5, verbosity=3)
MoveTolerance == 5
\* elif slot < 0 or slot > 7
MaxSlotArg == 7
\* if slot > 9 or slot < 0
MaxSlotRead == 9

\* The slot arguments: one below the range, slots 0..8, one above.
SlotArgs == {-1, 0, 3, 6, 7, 8, 9}
\* A transmission handed to setAbsorber as its slot argument: 0.0017.
SlotFractions == {17}
\* Where armr.move(pos) leaves the motor: at pos, past it by less than the
\* tolerance, or where it was.
MoveOffsets == {0, 4}
\* Positions the motor is driven to outside CMSBeam.
ArmrPositions == {ArmrOrigin, 343, 463, 500, 600}

\* Transmissions of the absorber tables are in units of 1e-9.
\* absorber_transmission_list at E = 13.5 keV
AbsorberList_13p5kev == <<1000000000, 41000000, 1742500, 73011, 2877, 123, 5>>
\* Variant: the entries of slots 4 and 5 change places.
AbsorberList_17kev_swapped ==
    <<1000000000, 184700000, 33300000, 6064000, 196600, 1101000, 36330>>

\* self.absorber_transmission_list_17kev
AbsorberList_17kev == <<1000000000, 184700000, 33300000, 6064000, 1101000, 196600, 36330>>
\* beam_int / beam_int[0]
AbsorberList_10kev == <<1000000000, 122366450, 13778021, 1696396, 212652, 23229, 2654, 325>>
\* tmp_list: exp(-i * d_l_Nb) for i in np.arange(6 + 1), tabulated
AbsorberList_calc(E) ==
    CASE E = 18000 -> <<1000000000, 236815315, 56081493, 13280957, 3145134, 744816, 176384>>
      [] OTHER -> <<1000000000, 0, 0, 0, 0, 0, 0>>

\* absorberCalcTransmission: the table chosen by the energy
absorber_transmission_list(E) ==
    IF Abs(E - 13500) < 10 THEN AbsorberList_13p5kev
    ELSE IF Abs(E - 17000) < 10 THEN AbsorberList_17kev
    ELSE IF Abs(E - 10000) < 100 THEN AbsorberList_10kev
    ELSE AbsorberList_calc(E)

\* self.absorber_transmission_list[int(slot)] raises IndexError for an index
\* beyond the list (slot is never negative where the function is called)
LookupFails(E, slot) == slot >= Len(absorber_transmission_list(E))

\* absorberCalcTransmission: return slot, absorber_transmission
absorberCalcTransmission(E, slot) == <<slot, absorber_transmission_list(E)[slot + 1]>>

\* return self.absorberCalcTransmission(slot), self.setAbsorber(slot, ...):
\* what the caller gets when depth calls wait for the innermost one, which
\* returns inner (<< >> stands for None)
RECURSIVE ReturnedThrough(_, _, _, _)
ReturnedThrough(depth, E, slot, inner) ==
    IF depth = 0 THEN inner
    ELSE <<absorberCalcTransmission(E, slot), ReturnedThrough(depth - 1, E, slot, inner)>>

\* absorber(): the slot of a position
SlotOfPosition(pos) == (pos - ArmrOrigin - SlotMargin + SlotPitch) \div SlotPitch

\* absorber(): if slot > 9 or slot < 0
ReadSlotRejected(slot) == slot > MaxSlotRead \/ slot < 0

\* Variant: the slot arguments up to 9 are taken.
SlotArgRejected_to9(slot) == slot < 0 \/ slot > 9

\* setAbsorber: elif slot < 0 or slot > 7
SlotArgRejected(slot) == slot < 0 \/ slot > MaxSlotArg

\* No setTransmission request is on record.
tAtRest ==
    /\ tEnergy = 13500
    /\ tTarget = TScale
    /\ tRetries = 0
    /\ tRetriesArg = 0
    /\ tPasses = 0
    /\ tFoilCmds = 0
    /\ tSel = <<0, 0>>
    /\ tPattern = << >>
    /\ tReport = {}
    /\ tOutcome = "none"
    /\ tReturn = -1

\* The record of the last setTransmission request is dropped.
tForgotten ==
    /\ tEnergy' = 13500
    /\ tTarget' = TScale
    /\ tRetries' = 0
    /\ tRetriesArg' = 0
    /\ tPasses' = 0
    /\ tFoilCmds' = 0
    /\ tSel' = <<0, 0>>
    /\ tPattern' = << >>
    /\ tReport' = {}
    /\ tOutcome' = "none"
    /\ tReturn' = -1

\* No call of an absorber function is on record.
aAtRest ==
    /\ aFn = "none"
    /\ aEnergy = 13500
    /\ aSlot = 0
    /\ aSlotFrac = 0
    /\ aRetries = 0
    /\ aRetriesArg = 0
    /\ aMoves = 0
    /\ aLookups = << >>
    /\ aDepth = 0
    /\ aReport = {}
    /\ aOutcome = "none"
    /\ aReturn = << >>
    /\ rSlot = 0

\* The record of the last call of an absorber function is dropped.
aForgotten ==
    /\ aFn' = "none"
    /\ aEnergy' = 13500
    /\ aSlot' = 0
    /\ aSlotFrac' = 0
    /\ aRetries' = 0
    /\ aRetriesArg' = 0
    /\ aMoves' = 0
    /\ aLookups' = << >>
    /\ aDepth' = 0
    /\ aReport' = {}
    /\ aOutcome' = "none"
    /\ aReturn' = << >>
    /\ rSlot' = 0

\* No CMSBeam function is running and none has run.
\* ------------------------------------------------- CMSBeam.elements
\* The elements in the order CMSBeam.__init__ appends them:
\* <<name, zposition in tenths of a metre, class>>.
AppendOrder ==
    << <<"3PW", 0, "ThreePoleWiggler">>,
       <<"GV1", 200, "GateValve">>,
       <<"GV2", 210, "GateValve">>,
       <<"FE shutter", 250, "Shutter">>,
       <<"GV", 260, "GateValve">>,
       <<"monochromator", 265, "BeamlineElement">>,
       <<"GV", 280, "GateValve">>,
       <<"mirror", 291, "BeamlineElement">>,
       <<"GV", 305, "GateValve">>,
       <<"fs2 (manual)", 309, "BeamlineElement">>,
       <<"photon shutter", 337, "Shutter">>,
       <<"GV", 340, "GateValve">>,
       <<"bim3", 490, "IonChamber_CMS">>,
       <<"attenuator", 538, "BeamlineElement">>,
       <<"fs3", 558, "DiagnosticScreen">>,
       <<"bim4", 570, "Scintillator_CMS">>,
       <<"KB mirrors", 578, "BeamlineElement">>,
       <<"fs4", 582, "DiagnosticScreen">>,
       <<"bim5", 582, "DiamondDiode_CMS">>,
       <<"attenuator2", 586, "BeamlineElement">>,
       <<"sample", 588, "BeamlineElement">>,
       <<"WAXS detector", 590, "BeamlineElement">>,
       <<"GV ds big", 600, "GateValve">>,
       <<"SAXS detector", 638, "BeamlineElement">> >>

name(element) == element[1]
zposition(element) == element[2]
class(element) == element[3]

\* Variant: the list is sorted with reverse=True.
InsertByZ_reverse(sorted, element) ==
    LET k == Cardinality({i \in 1..Len(sorted) : zposition(sorted[i]) >= zposition(element)})
    IN  SubSeq(sorted, 1, k) \o <<element>> \o SubSeq(sorted, k + 1, Len(sorted))

\* One step of the stable sort on zposition: the element goes behind the
\* elements of the sorted part that are not farther down the beam.
InsertByZ(sorted, element) ==
    LET k == Cardinality({i \in 1..Len(sorted) : zposition(sorted[i]) <= zposition(element)})
    IN  SubSeq(sorted, 1, k) \o <<element>> \o SubSeq(sorted, k + 1, Len(sorted))

RECURSIVE SortFrom(_, _, _)
SortFrom(list, i, sorted) ==
    IF i > Len(list) THEN sorted
    ELSE SortFrom(list, i + 1, InsertByZ(sorted, list[i]))

\* self.elements.sort(key=lambda o: o.zposition, reverse=False)
SortByZ(list) == SortFrom(list, 1, << >>)

ScreenNames == {"fs3", "fs4"}
ScreenReadings == {0, 1, 2}

\* The beam-path report and the diagnostic screens at rest.
FluxQuiet ==
    /\ elements = SortByZ(AppendOrder)
    /\ screens = [s \in ScreenNames |-> 0]
    /\ fpc = "idle"
    /\ fVerbosity = 0
    /\ fIdx = 0
    /\ fBeam = TRUE
    /\ fExpected = FALSE
    /\ fBlockSeen = FALSE
    /\ fRow = << >>
    /\ fOutcome = "none"

DefaultMaxTries == 8
MaxTriesArgs == {0, 2, DefaultMaxTries}

\* The valves and the pump of the SAXS pipe, and changePipe, at rest.
PipeQuiet ==
    /\ IV_SAXS = "Open"
    /\ IV_KB = "Open"
    /\ pump1_toggle = 1
    /\ pump1_state = 1
    /\ cpc = "idle"
    /\ cTries = 0
    /\ cMaxTries = DefaultMaxTries
    /\ cOutcome = "none"

DefaultActuateTries == 5
ActuateTriesArgs == {1, 2, DefaultActuateTries}
\* The counters of a call are followed up to this value.
MaxTriesSeen == 7

\* No _actuate_open or _actuate_close call was made yet.
ValveQuiet ==
    /\ vFn = "none"
    /\ vpc = "idle"
    /\ vTries = 0
    /\ vMaxTries = DefaultActuateTries
    /\ vCmd = "none"
    /\ vStatus = 0
    /\ vWrites = 0
    /\ vReached = FALSE
    /\ vLate = 0
    /\ vOutcome = "none"

\* Beamline.__init__: self.current_mode = "undefined"; no switch was made.
ModeQuiet ==
    /\ current_mode = "undefined"
    /\ mpc = "idle"
    /\ mFn = "none"
    /\ mEnded = "none"
    /\ bsx = 0
    /\ shutter = "closed"
    /\ detSel = "none"

MaxThreads == 2
Threads == 1..MaxThreads
RoomTemperature == 250
DefaultRampRate == 10

\* LinkamIOC.__init__
LinkamQuiet ==
    /\ current_temp = RoomTemperature
    /\ target_temp = RoomTemperature
    /\ ramp_rate = DefaultRampRate
    /\ heating = FALSE
    /\ status = 0
    /\ stop_poller = FALSE
    /\ poller_thread = 0
    /\ lpc = [t \in Threads |-> "none"]
    /\ ldiff = [t \in Threads |-> 0]
    /\ joining = FALSE
    /\ settled = FALSE

OtherQuiet ==
    /\ pump_FS4 = "Open"
    /\ ValveQuiet
    /\ ModeQuiet
    /\ LinkamQuiet

BeamQuiet ==
    /\ energy = 13500
    /\ filters = [i \in 1..8 |-> 0]
    /\ armr = ArmrOrigin
    /\ bpc = "idle"
    /\ tAtRest
    /\ aAtRest

Init ==
    /\ BeamQuiet
    /\ FluxQuiet
    /\ PipeQuiet
    /\ OtherQuiet
    /\ vent_Smpl = "Close"
    /\ pump_Smpl = "Close"
    /\ pump_Det \in {"Open", "Close"}
    /\ GV_SAXS \in {"Open", "Close"}
    /\ gatex \in {GateInPosition, GateOutPosition}
    /\ pump2_toggle = 1
    /\ pump2_state = 1
    /\ WAXS_outlet_toggle = 1
    /\ WAXS_outlet_sts = 1
    /\ Smpl_pressure = 9510
    /\ Det_pressure = 9510
    /\ plan = "none"
    /\ pc = "idle"
    /\ threshold = DefaultThreshold
    /\ result = "none"
    /\ guardClass = NoClass
    /\ order = << >>
    /\ opensAfterCoarse = 0
    /\ polls = 0
    /\ gateCmd = "none"
    /\ gvCmd = "none"

\* ------------------------------------------------- _pumpSample (Evacuate)
\* RE(self._pumpSample(threshold)): the code up to the first yield.
\* Variant: a plan is accepted while another one is in progress.
RE_idle_reentrant == TRUE

\* RE(plan) runs one plan at a time and returns when the plan has ended:
\* a plan is only accepted when none is in progress.
RE_idle == pc = "idle"

pumpSample_call ==
    /\ RE_idle
    /\ \E thr \in ThresholdArgs, s \in SmplReadings, d \in DetReadings :
          /\ threshold' = thr
          /\ Smpl_pressure' = s
          /\ Det_pressure' = d
          /\ guardClass' = diffPressure(s, d)
          /\ IF GuardFails(diffPressure(s, d))
             THEN pc' = "idle" /\ result' = "NotNecessary"
             ELSE pc' = "p_ventClose" /\ result' = "running"
    /\ plan' = "pumpSample"
    /\ order' = << >>
    /\ opensAfterCoarse' = 0
    /\ polls' = 0
    /\ UNCHANGED <<beamVars, fluxVars, pipeVars, otherVars, hw, pump2_state, WAXS_outlet_sts, gateCmd, gvCmd>>

\* yield from bps.mov(self._vent_Smpl, "Close")
pumpSample_ventClose ==
    /\ pc = "p_ventClose"
    /\ vent_Smpl' = "Close"
    /\ order' = Note(order, "vent_Smpl:Close")
    /\ pc' = "p_detClose"
    /\ UNCHANGED <<beamVars, fluxVars, pipeVars, otherVars, pump_Smpl, pump_Det, GV_SAXS, gatex, pump2_toggle, WAXS_outlet_toggle,
                   reads, plan, threshold, result, guardClass,
                   opensAfterCoarse, polls, gateCmd, gvCmd>>

\* Variant: the detector pump valve is left as it is.
pumpSample_detClose_omitted ==
    /\ pc = "p_detClose"
    /\ pc' = "p_open"
    /\ UNCHANGED <<beamVars, fluxVars, pipeVars, otherVars, hw, reads, plan, threshold, result, guardClass, hist>>

\* yield from bps.mov(self._pump_Det, "Close")
pumpSample_detClose ==
    /\ pc = "p_detClose"
    /\ pump_Det' = "Close"
    /\ order' = Note(order, "pump_Det:Close")
    /\ pc' = "p_open"
    /\ UNCHANGED <<beamVars, fluxVars, pipeVars, otherVars, vent_Smpl, pump_Smpl, GV_SAXS, gatex, pump2_toggle, WAXS_outlet_toggle,
                   reads, plan, threshold, result, guardClass,
                   opensAfterCoarse, polls, gateCmd, gvCmd>>

\* yield from bps.mov(self._pump_Smpl, "Open"); bps.sleep(10);
\* then the first test of: while self._pump2_state.get() != 1
pumpSample_open ==
    /\ pc = "p_open"
    /\ pump_Smpl' = "Open"
    /\ order' = Note(order, "pump_Smpl:Open")
    /\ \E st \in {0, 1} :
          /\ pump2_state' = st
          /\ pc' = IF st # 1 THEN "p_toggleOff" ELSE "p_waitCoarse"
    /\ polls' = 0
    /\ UNCHANGED <<beamVars, fluxVars, pipeVars, otherVars, vent_Smpl, pump_Det, GV_SAXS, gatex, pump2_toggle, WAXS_outlet_toggle,
                   WAXS_outlet_sts, Smpl_pressure, Det_pressure,
                   plan, threshold, result, guardClass,
                   opensAfterCoarse, gateCmd, gvCmd>>

\* yield from bps.mov(self._pump2_toggle, 0); bps.sleep(1)
pumpSample_toggleOff ==
    /\ pc = "p_toggleOff"
    /\ pump2_toggle' = 0
    /\ order' = Note(order, "pump2_toggle:0")
    /\ pc' = "p_toggleOn"
    /\ UNCHANGED <<beamVars, fluxVars, pipeVars, otherVars, vent_Smpl, pump_Smpl, pump_Det, GV_SAXS, gatex, WAXS_outlet_toggle,
                   reads, plan, threshold, result, guardClass,
                   opensAfterCoarse, polls, gateCmd, gvCmd>>

\* yield from bps.mov(self._pump2_toggle, 1); bps.sleep(1);
\* then the next test of: while self._pump2_state.get() != 1
pumpSample_toggleOn ==
    /\ pc = "p_toggleOn"
    /\ pump2_toggle' = 1
    /\ order' = Note(order, "pump2_toggle:1")
    /\ polls' = Bump(polls)
    /\ \E st \in {0, 1} :
          /\ pump2_state' = st
          /\ pc' = IF st # 1 THEN "p_toggleOff" ELSE "p_waitCoarse"
    /\ UNCHANGED <<beamVars, fluxVars, pipeVars, otherVars, vent_Smpl, pump_Smpl, pump_Det, GV_SAXS, gatex, WAXS_outlet_toggle,
                   WAXS_outlet_sts, Smpl_pressure, Det_pressure,
                   plan, threshold, result, guardClass,
                   opensAfterCoarse, gateCmd, gvCmd>>

\* while self._PV_Smpl_pressure.get() > 500: yield from bps.sleep(3)
pumpSample_waitCoarse ==
    /\ pc = "p_waitCoarse"
    /\ \E s \in SmplReadings :
          /\ Smpl_pressure' = s
          /\ IF s > CoarseThreshold
             THEN /\ pc' = "p_waitCoarse"
                  /\ polls' = Bump(polls)
                  /\ order' = order
             ELSE /\ pc' = "p_fullOpen"
                  /\ polls' = 0
                  /\ order' = Note(order, "read:coarse reached")
    /\ UNCHANGED <<beamVars, fluxVars, pipeVars, otherVars, hw, pump2_state, WAXS_outlet_sts, Det_pressure,
                   plan, threshold, result, guardClass,
                   opensAfterCoarse, gateCmd, gvCmd>>

\* Variant: the valve is commanded Soft, as the commented-out line did.
pumpSample_fullOpen_soft ==
    /\ pc = "p_fullOpen"
    /\ pump_Smpl' = "Soft"
    /\ order' = Note(order, "pump_Smpl:Soft")
    /\ pc' = "p_waitThreshold"
    /\ UNCHANGED <<beamVars, fluxVars, pipeVars, otherVars, vent_Smpl, pump_Det, GV_SAXS, gatex, pump2_toggle, WAXS_outlet_toggle,
                   reads, plan, threshold, result, guardClass,
                   opensAfterCoarse, polls, gateCmd, gvCmd>>

\* yield from bps.mov(self._pump_Smpl, "Open")
pumpSample_fullOpen ==
    /\ pc = "p_fullOpen"
    /\ pump_Smpl' = "Open"
    /\ order' = Note(order, "pump_Smpl:Open again")
    /\ opensAfterCoarse' = opensAfterCoarse + 1
    /\ pc' = "p_waitThreshold"
    /\ UNCHANGED <<beamVars, fluxVars, pipeVars, otherVars, vent_Smpl, pump_Det, GV_SAXS, gatex, pump2_toggle, WAXS_outlet_toggle,
                   reads, plan, threshold, result, guardClass,
                   polls, gateCmd, gvCmd>>

\* Variant: the loop tests the coarse threshold instead of the argument.
pumpSample_waitThreshold_coarse ==
    /\ pc = "p_waitThreshold"
    /\ \E s \in SmplReadings :
          /\ Smpl_pressure' = s
          /\ IF s > CoarseThreshold
             THEN /\ pc' = "p_waitThreshold"
                  /\ polls' = Bump(polls)
                  /\ order' = order
             ELSE /\ pc' = "p_detOpen"
                  /\ polls' = 0
                  /\ order' = Note(order, "read:threshold reached")
    /\ UNCHANGED <<beamVars, fluxVars, pipeVars, otherVars, hw, pump2_state, WAXS_outlet_sts, Det_pressure,
                   plan, threshold, result, guardClass,
                   opensAfterCoarse, gateCmd, gvCmd>>

\* while self._PV_Smpl_pressure.get() > threshold: yield from bps.sleep(3)
pumpSample_waitThreshold ==
    /\ pc = "p_waitThreshold"
    /\ \E s \in SmplReadings :
          /\ Smpl_pressure' = s
          /\ IF s > threshold
             THEN /\ pc' = "p_waitThreshold"
                  /\ polls' = Bump(polls)
                  /\ order' = order
             ELSE /\ pc' = "p_detOpen"
                  /\ polls' = 0
                  /\ order' = Note(order, "read:threshold reached")
    /\ UNCHANGED <<beamVars, fluxVars, pipeVars, otherVars, hw, pump2_state, WAXS_outlet_sts, Det_pressure,
                   plan, threshold, result, guardClass,
                   opensAfterCoarse, gateCmd, gvCmd>>

\* yield from bps.mov(self._pump_Det, "Open")
pumpSample_detOpen ==
    /\ pc = "p_detOpen"
    /\ pump_Det' = "Open"
    /\ order' = Note(order, "pump_Det:Open")
    /\ pc' = "p_gateOut"
    /\ UNCHANGED <<beamVars, fluxVars, pipeVars, otherVars, vent_Smpl, pump_Smpl, GV_SAXS, gatex, pump2_toggle, WAXS_outlet_toggle,
                   reads, plan, threshold, result, guardClass,
                   opensAfterCoarse, polls, gateCmd, gvCmd>>

\* yield from self._gateOut(): bps.mov(gatex, -95); the plan ends
pumpSample_gateOut ==
    /\ pc = "p_gateOut"
    /\ gatex' = GateOutPosition
    /\ gateCmd' = "out"
    /\ order' = Note(order, "gatex:out")
    /\ pc' = "idle"
    /\ result' = "completed"
    /\ UNCHANGED <<beamVars, fluxVars, pipeVars, otherVars, vent_Smpl, pump_Smpl, pump_Det, GV_SAXS, pump2_toggle, WAXS_outlet_toggle,
                   reads, plan, threshold, guardClass,
                   opensAfterCoarse, polls, gvCmd>>

\* ----------------------------------------------------- _ventSample (Vent)
\* RE(self._ventSample()): the plan has no guard
ventSample_call ==
    /\ RE_idle
    /\ plan' = "ventSample"
    /\ pc' = "v_gvClose"
    /\ result' = "running"
    /\ order' = << >>
    /\ opensAfterCoarse' = 0
    /\ polls' = 0
    /\ UNCHANGED <<beamVars, fluxVars, pipeVars, otherVars, hw, reads, threshold, guardClass, gateCmd, gvCmd>>

\* yield from bps.mov(self._GV_SAXS, "Close");
\* then the first test of: while self._WAXS_outlet_sts.get() == 1
ventSample_gvClose ==
    /\ pc = "v_gvClose"
    /\ GV_SAXS' = "Close"
    /\ gvCmd' = "Close"
    /\ \E st \in {0, 1} :
          /\ WAXS_outlet_sts' = st
          /\ pc' = IF st = 1 THEN "v_outletOff" ELSE "v_gateIn"
          /\ order' = IF st = 1 THEN Note(order, "GV_SAXS:Close")
                      ELSE Note(Note(order, "GV_SAXS:Close"), "read:outlet off")
    /\ UNCHANGED <<beamVars, fluxVars, pipeVars, otherVars, vent_Smpl, pump_Smpl, pump_Det, gatex, pump2_toggle, WAXS_outlet_toggle,
                   pump2_state, Smpl_pressure, Det_pressure,
                   plan, threshold, result, guardClass,
                   opensAfterCoarse, polls, gateCmd>>

\* Variant: an "if" in place of the "while": one toggle, no second test.
ventSample_outletOff_once ==
    /\ pc = "v_outletOff"
    /\ WAXS_outlet_toggle' = 0
    /\ polls' = Bump(polls)
    /\ pc' = "v_gateIn"
    /\ order' = Note(order, "WAXS_outlet_toggle:0")
    /\ UNCHANGED <<beamVars, fluxVars, pipeVars, otherVars, vent_Smpl, pump_Smpl, pump_Det, GV_SAXS, gatex, pump2_toggle,
                   reads, plan, threshold, result, guardClass,
                   opensAfterCoarse, gateCmd, gvCmd>>

\* yield from bps.mov(self._WAXS_outlet_toggle, 0); time.sleep(0.5);
\* then the next test of: while self._WAXS_outlet_sts.get() == 1
ventSample_outletOff ==
    /\ pc = "v_outletOff"
    /\ WAXS_outlet_toggle' = 0
    /\ polls' = Bump(polls)
    /\ \E st \in {0, 1} :
          /\ WAXS_outlet_sts' = st
          /\ pc' = IF st = 1 THEN "v_outletOff" ELSE "v_gateIn"
          /\ order' = IF st = 1 THEN Note(order, "WAXS_outlet_toggle:0")
                      ELSE Note(Note(order, "WAXS_outlet_toggle:0"), "read:outlet off")
    /\ UNCHANGED <<beamVars, fluxVars, pipeVars, otherVars, vent_Smpl, pump_Smpl, pump_Det, GV_SAXS, gatex, pump2_toggle,
                   pump2_state, Smpl_pressure, Det_pressure,
                   plan, threshold, result, guardClass,
                   opensAfterCoarse, gateCmd, gvCmd>>

\* Variant: the window gate is not moved.
ventSample_gateIn_omitted ==
    /\ pc = "v_gateIn"
    /\ \E d \in DetReadings : Det_pressure' = d
    /\ polls' = 0
    /\ pc' = "v_pumpClose"
    /\ UNCHANGED <<beamVars, fluxVars, pipeVars, otherVars, hw, pump2_state, WAXS_outlet_sts, Smpl_pressure,
                   plan, threshold, result, guardClass,
                   order, opensAfterCoarse, gateCmd, gvCmd>>

\* yield from self._gateIn(): bps.mov(gatex, 0);
\* then start_p = self._PV_Det_pressure.get()
ventSample_gateIn ==
    /\ pc = "v_gateIn"
    /\ gatex' = GateInPosition
    /\ gateCmd' = "in"
    /\ order' = Note(order, "gatex:in")
    /\ \E d \in DetReadings : Det_pressure' = d
    /\ polls' = 0
    /\ pc' = "v_pumpClose"
    /\ UNCHANGED <<beamVars, fluxVars, pipeVars, otherVars, vent_Smpl, pump_Smpl, pump_Det, GV_SAXS, pump2_toggle, WAXS_outlet_toggle,
                   pump2_state, WAXS_outlet_sts, Smpl_pressure,
                   plan, threshold, result, guardClass,
                   opensAfterCoarse, gvCmd>>

\* Variant: the sample pump valve is left as it is.
ventSample_pumpClose_omitted ==
    /\ pc = "v_pumpClose"
    /\ pc' = "v_soft"
    /\ UNCHANGED <<beamVars, fluxVars, pipeVars, otherVars, hw, reads, plan, threshold, result, guardClass, hist>>

\* yield from bps.mov(self._pump_Smpl, "Close"); bps.sleep(3)
ventSample_pumpClose ==
    /\ pc = "v_pumpClose"
    /\ pump_Smpl' = "Close"
    /\ order' = Note(order, "pump_Smpl:Close")
    /\ pc' = "v_soft"
    /\ UNCHANGED <<beamVars, fluxVars, pipeVars, otherVars, vent_Smpl, pump_Det, GV_SAXS, gatex, pump2_toggle, WAXS_outlet_toggle,
                   reads, plan, threshold, result, guardClass,
                   opensAfterCoarse, polls, gateCmd, gvCmd>>

\* yield from bps.mov(self._vent_Smpl, "Soft")
ventSample_soft ==
    /\ pc = "v_soft"
    /\ vent_Smpl' = "Soft"
    /\ order' = Note(order, "vent_Smpl:Soft")
    /\ pc' = "v_waitSoft"
    /\ UNCHANGED <<beamVars, fluxVars, pipeVars, otherVars, pump_Smpl, pump_Det, GV_SAXS, gatex, pump2_toggle, WAXS_outlet_toggle,
                   reads, plan, threshold, result, guardClass,
                   opensAfterCoarse, polls, gateCmd, gvCmd>>

\* Variant: the loop tests the coarse threshold of the pump plan.
ventSample_waitSoft_coarse ==
    /\ pc = "v_waitSoft"
    /\ \E s \in SmplReadings :
          /\ Smpl_pressure' = s
          /\ IF s < CoarseThreshold
             THEN /\ pc' = "v_waitSoft"
                  /\ polls' = Bump(polls)
             ELSE /\ pc' = "v_open"
                  /\ polls' = 0
    /\ UNCHANGED <<beamVars, fluxVars, pipeVars, otherVars, hw, pump2_state, WAXS_outlet_sts, Det_pressure,
                   plan, threshold, result, guardClass,
                   order, opensAfterCoarse, gateCmd, gvCmd>>

\* while self._PV_Smpl_pressure.get() < 800: yield from bps.sleep(3)
ventSample_waitSoft ==
    /\ pc = "v_waitSoft"
    /\ \E s \in SmplReadings :
          /\ Smpl_pressure' = s
          /\ IF s < SoftVentThreshold
             THEN /\ pc' = "v_waitSoft"
                  /\ polls' = Bump(polls)
             ELSE /\ pc' = "v_open"
                  /\ polls' = 0
    /\ UNCHANGED <<beamVars, fluxVars, pipeVars, otherVars, hw, pump2_state, WAXS_outlet_sts, Det_pressure,
                   plan, threshold, result, guardClass,
                   order, opensAfterCoarse, gateCmd, gvCmd>>

\* yield from bps.mov(self._vent_Smpl, "Open")
ventSample_open ==
    /\ pc = "v_open"
    /\ vent_Smpl' = "Open"
    /\ order' = Note(order, "vent_Smpl:Open")
    /\ pc' = "v_waitFull"
    /\ UNCHANGED <<beamVars, fluxVars, pipeVars, otherVars, pump_Smpl, pump_Det, GV_SAXS, gatex, pump2_toggle, WAXS_outlet_toggle,
                   reads, plan, threshold, result, guardClass,
                   opensAfterCoarse, polls, gateCmd, gvCmd>>

\* while self._PV_Smpl_pressure.get() < 950: yield from bps.sleep(3); the plan ends
ventSample_waitFull ==
    /\ pc = "v_waitFull"
    /\ \E s \in SmplReadings :
          /\ Smpl_pressure' = s
          /\ IF s < FullVentThreshold
             THEN /\ pc' = "v_waitFull"
                  /\ polls' = Bump(polls)
                  /\ result' = result
             ELSE /\ pc' = "idle"
                  /\ polls' = 0
                  /\ result' = "completed"
    /\ UNCHANGED <<beamVars, fluxVars, pipeVars, otherVars, hw, pump2_state, WAXS_outlet_sts, Det_pressure,
                   plan, threshold, guardClass,
                   order, opensAfterCoarse, gateCmd, gvCmd>>

\* ------------------------------------------------------------ run engine
\* Variant: stopping the plan closes the sample valves.
stopPlan_closing ==
    /\ pc # "idle"
    /\ pc' = "idle"
    /\ result' = "stopped"
    /\ vent_Smpl' = "Close"
    /\ pump_Smpl' = "Close"
    /\ UNCHANGED <<beamVars, fluxVars, pipeVars, otherVars, pump_Det, GV_SAXS, gatex, pump2_toggle, WAXS_outlet_toggle,
                   reads, plan, threshold, guardClass, hist>>

\* The run engine stops the plan between two steps: no further step is taken.
stopPlan ==
    /\ pc # "idle"
    /\ pc' = "idle"
    /\ result' = "stopped"
    /\ UNCHANGED <<beamVars, fluxVars, pipeVars, otherVars, hw, reads, plan, threshold, guardClass, hist>>

PlanStep ==
    \/ pumpSample_ventClose
    \/ pumpSample_detClose
    \/ pumpSample_open
    \/ pumpSample_toggleOff
    \/ pumpSample_toggleOn
    \/ pumpSample_waitCoarse
    \/ pumpSample_fullOpen
    \/ pumpSample_waitThreshold
    \/ pumpSample_detOpen
    \/ pumpSample_gateOut
    \/ ventSample_gvClose
    \/ ventSample_outletOff
    \/ ventSample_gateIn
    \/ ventSample_pumpClose
    \/ ventSample_soft
    \/ ventSample_waitSoft
    \/ ventSample_open
    \/ ventSample_waitFull

Next ==
    \/ pumpSample_call
    \/ ventSample_call
    \/ PlanStep
    \/ stopPlan

Spec == Init /\ [][Next]_vars

\* The run engine keeps executing a plan it was given until the plan ends
\* or is stopped.
FairSpec == Spec /\ WF_vars(PlanStep)


\* ------------------------------------------- CMSBeam.setTransmission
\* beam.setTransmission(transmission, retries): the call
setTransmission_call ==
    /\ bpc = "idle"
    /\ \E target \in TargetArgs, r \in RetriesArgs :
          /\ tTarget' = target
          /\ tRetries' = r
          /\ tRetriesArg' = r
    /\ tEnergy' = energy
    /\ bpc' = "setTransmission"
    /\ tPasses' = 0
    /\ tFoilCmds' = 0
    /\ tSel' = <<0, 0>>
    /\ tPattern' = << >>
    /\ tReport' = {}
    /\ tOutcome' = "running"
    /\ tReturn' = -1
    /\ aForgotten
    /\ UNCHANGED <<vacVars, fluxVars, pipeVars, otherVars, energy, filters, armr>>

\* The message of the if / elif chain of one pass, if any.
RangeMessage(E, target) ==
    IF ~EnergySupported(E) THEN {"energy not available"}
    ELSE IF target > TScale THEN {"above 1.0"}
    ELSE IF target < 1 THEN {"too low"}
    ELSE {}

\* One execution of the body of setTransmission: the if / elif / else chain,
\* then the check of the read-back, which returns or calls the function again.
setTransmission_pass ==
    /\ bpc = "setTransmission"
    /\ \E stuck \in StuckChoices :
          LET sets == EnergySupported(tEnergy) /\ TargetAccepted(tTarget)
              sel == IF sets THEN ScanResult(tEnergy, tTarget) ELSE tSel
              N == FoilPattern(sel[1], sel[2])
              after == IF sets THEN FoilsAfter(filters, N, stuck) ELSE filters
              readback == calc_transmission_filters(after, tEnergy)
          IN  /\ filters' = after
              /\ tSel' = sel
              /\ tPattern' = IF sets THEN N ELSE tPattern
              /\ tPasses' = IF sets THEN tPasses + 1 ELSE tPasses
              /\ tFoilCmds' = IF sets THEN tFoilCmds + 8 ELSE tFoilCmds
              /\ IF ~EnergySupported(tEnergy)
                 \* transmission() returns None: abs(None - transmission) raises
                 THEN /\ tReport' = tReport \cup RangeMessage(tEnergy, tTarget)
                      /\ tOutcome' = "TypeError"
                      /\ tReturn' = -1
                      /\ tRetries' = tRetries
                      /\ bpc' = "idle"
                 ELSE IF DeviationExceeds(readback, tTarget) /\ tRetries > 0
                 THEN /\ tReport' = tReport \cup RangeMessage(tEnergy, tTarget)
                      /\ tOutcome' = "running"
                      /\ tReturn' = -1
                      /\ tRetries' = RetriesLeft(tRetries)
                      /\ bpc' = "setTransmission"
                 ELSE /\ tReport' = tReport \cup RangeMessage(tEnergy, tTarget)
                                    \cup (IF DeviationExceeds(readback, tTarget)
                                          THEN {"WARNING didn't update"} ELSE {})
                      /\ tOutcome' = "returned"
                      /\ tReturn' = readback
                      /\ tRetries' = tRetries
                      /\ bpc' = "idle"
    /\ UNCHANGED <<vacVars, fluxVars, pipeVars, otherVars, energy, armr, tEnergy, tTarget, tRetriesArg, aVars>>

\* ------------------------------------------- CMSBeam: absorber functions
\* beam.setAbsorber(slot, retries): the call
setAbsorber_call ==
    /\ bpc = "idle"
    /\ \E slot \in SlotArgs, r \in RetriesArgs :
          /\ aSlot' = slot
          /\ \E frac \in {0} \cup (IF slot = 0 THEN SlotFractions ELSE {}) : aSlotFrac' = frac
          /\ aRetries' = r
          /\ aRetriesArg' = r
    /\ aEnergy' = energy
    /\ bpc' = "setAbsorber"
    /\ aFn' = "setAbsorber"
    /\ aMoves' = 0
    /\ aLookups' = << >>
    /\ aDepth' = 0
    /\ aReport' = {}
    /\ aOutcome' = "running"
    /\ aReturn' = << >>
    /\ rSlot' = 0
    /\ tForgotten
    /\ UNCHANGED <<vacVars, fluxVars, pipeVars, otherVars, energy, filters, armr>>

\* The message of the if / elif chain of one pass of setAbsorber, if any.
SlotMessage(E, slot) ==
    IF ~EnergySupported(E) THEN {"energy not available"}
    ELSE IF SlotArgRejected(slot) THEN {"cannot move beyond [0, 6]"}
    ELSE {}

\* One execution of the body of setAbsorber: the if / elif / else chain, then
\* the check of the position, which returns or calls the function again.
setAbsorber_pass ==
    /\ bpc = "setAbsorber"
    /\ LET moves == EnergySupported(aEnergy) /\ ~SlotArgRejected(aSlot)
           armr_pos == ArmrOrigin + aSlot * SlotPitch + (aSlotFrac * SlotPitch) \div 10000
       IN  \E after \in (IF moves THEN {armr_pos + d : d \in MoveOffsets} \cup {armr}
                                  ELSE {armr}) :
              /\ armr' = after
              /\ aMoves' = IF moves THEN aMoves + 1 ELSE aMoves
              /\ IF ~moves
                 \* armr_pos was never assigned: the check raises
                 THEN /\ aReport' = aReport \cup SlotMessage(aEnergy, aSlot)
                      /\ aOutcome' = "UnboundLocalError"
                      /\ UNCHANGED <<aLookups, aDepth, aRetries, aReturn>>
                      /\ bpc' = "idle"
                 ELSE IF Abs(after - armr_pos) > MoveTolerance /\ aRetries = 0
                 \* the WARNING is printed and the innermost call returns None
                 THEN /\ aReport' = aReport \cup {"WARNING didn't update"}
                      /\ aOutcome' = IF aDepth = 0 THEN "returned None" ELSE "returned"
                      /\ aReturn' = ReturnedThrough(aDepth, aEnergy, aSlot, << >>)
                      /\ UNCHANGED <<aLookups, aDepth, aRetries>>
                      /\ bpc' = "idle"
                 ELSE \* absorberCalcTransmission(slot) is evaluated, then either
                      \* returned or paired with the result of the inner call
                      /\ aLookups' = Append(aLookups, aSlot)
                      /\ aReport' = aReport
                      /\ IF LookupFails(aEnergy, aSlot)
                         THEN /\ aOutcome' = "IndexError"
                              /\ UNCHANGED <<aDepth, aRetries, aReturn>>
                              /\ bpc' = "idle"
                         ELSE IF Abs(after - armr_pos) > MoveTolerance
                         THEN /\ aOutcome' = "running"
                              /\ aDepth' = aDepth + 1
                              /\ aRetries' = aRetries - 1
                              /\ aReturn' = aReturn
                              /\ bpc' = "setAbsorber"
                         ELSE /\ aOutcome' = "returned"
                              /\ aReturn' = ReturnedThrough(aDepth, aEnergy, aSlot,
                                              absorberCalcTransmission(aEnergy, aSlot))
                              /\ UNCHANGED <<aDepth, aRetries>>
                              /\ bpc' = "idle"
    /\ UNCHANGED <<vacVars, fluxVars, pipeVars, otherVars, energy, filters, tVars, aFn, aEnergy, aSlot, aSlotFrac, aRetriesArg,
                   rSlot>>

\* beam.absorber(): the slot the motor is read to be in, and its transmission
absorber ==
    /\ bpc = "idle"
    /\ aFn' = "absorber"
    /\ aEnergy' = energy
    /\ aSlot' = 0
    /\ aSlotFrac' = 0
    /\ aRetries' = 0
    /\ aRetriesArg' = 0
    /\ aMoves' = 0
    /\ aDepth' = 0
    /\ IF ~EnergySupported(energy)
       THEN /\ aReport' = {"energy not available"}
            /\ aOutcome' = "returned None"
            /\ aLookups' = << >>
            /\ aReturn' = << >>
            /\ rSlot' = 0
       ELSE /\ rSlot' = SlotOfPosition(armr)
            /\ IF ReadSlotRejected(SlotOfPosition(armr))
               THEN /\ aReport' = {"slot should be in [0, 8]"}
                    /\ aOutcome' = "returned None"
                    /\ aLookups' = << >>
                    /\ aReturn' = << >>
               ELSE /\ aReport' = {}
                    /\ aLookups' = <<SlotOfPosition(armr)>>
                    /\ IF LookupFails(energy, SlotOfPosition(armr))
                       THEN aOutcome' = "IndexError" /\ aReturn' = << >>
                       ELSE /\ aOutcome' = "returned"
                            /\ aReturn' = absorberCalcTransmission(energy, SlotOfPosition(armr))
    /\ tForgotten
    /\ UNCHANGED <<vacVars, fluxVars, pipeVars, otherVars, energy, filters, armr, bpc>>

\* beam.absorber_out(): the absorber is driven out of the beam
absorber_out ==
    /\ bpc = "idle"
    /\ armr' = ArmrOut
    /\ aFn' = "absorber_out"
    /\ aEnergy' = energy
    /\ aSlot' = 0
    /\ aSlotFrac' = 0
    /\ aRetries' = 0
    /\ aRetriesArg' = 0
    /\ aMoves' = 1
    /\ aLookups' = << >>
    /\ aDepth' = 0
    /\ aReport' = {"completely out of the beam"}
    /\ aOutcome' = "returned None"
    /\ aReturn' = << >>
    /\ rSlot' = 0
    /\ tForgotten
    /\ UNCHANGED <<vacVars, fluxVars, pipeVars, otherVars, energy, filters, bpc>>

\* armr is a motor of the beamline: it is also moved outside CMSBeam.
armr_moved ==
    /\ bpc = "idle"
    /\ \E pos \in ArmrPositions : armr' = pos
    /\ tForgotten
    /\ aForgotten
    /\ UNCHANGED <<vacVars, fluxVars, pipeVars, otherVars, energy, filters, bpc>>

\* The monochromator is set to another energy while no function is running.
energy_changed ==
    /\ bpc = "idle"
    /\ \E E \in Energies : energy' = E
    /\ tForgotten
    /\ aForgotten
    /\ UNCHANGED <<vacVars, fluxVars, pipeVars, otherVars, filters, armr, bpc>>

\* The vacuum plans at rest, in the state the beam functions are studied in.
VacQuiet ==
    /\ vent_Smpl = "Close"
    /\ pump_Smpl = "Close"
    /\ pump_Det = "Close"
    /\ GV_SAXS = "Close"
    /\ gatex = GateInPosition
    /\ pump2_toggle = 1
    /\ pump2_state = 1
    /\ WAXS_outlet_toggle = 1
    /\ WAXS_outlet_sts = 1
    /\ Smpl_pressure = 9510
    /\ Det_pressure = 9510
    /\ plan = "none"
    /\ pc = "idle"
    /\ threshold = DefaultThreshold
    /\ result = "none"
    /\ guardClass = NoClass
    /\ order = << >>
    /\ opensAfterCoarse = 0
    /\ polls = 0
    /\ gateCmd = "none"
    /\ gvCmd = "none"

BeamInit == VacQuiet /\ BeamQuiet /\ FluxQuiet /\ PipeQuiet /\ OtherQuiet

BeamNext ==
    \/ setTransmission_call
    \/ setTransmission_pass
    \/ setAbsorber_call
    \/ setAbsorber_pass
    \/ absorber
    \/ absorber_out
    \/ armr_moved
    \/ energy_changed

BeamSpec == BeamInit /\ [][BeamNext]_vars

\* ------------------------------------------------------ CMSBeam.fluxes
\* DiagnosticScreen.state(): Pos-Sts 0 is out, 1 is block
ScreenState(n) == IF n = 0 THEN "out" ELSE IF n = 1 THEN "block" ELSE "undefined"

Monitors == {"IonChamber_CMS", "Scintillator_CMS", "DiamondDiode_CMS"}

\* element.state(): the values the call can return for the element. The
\* wiggler, the gate valves and the shutters report what their PV reads.
StatesRead(element, scr) ==
    CASE class(element) = "ThreePoleWiggler" -> {"in", "out", "undefined"}
      [] class(element) \in {"GateValve", "Shutter"} -> {"out", "block", "undefined"}
      [] class(element) = "DiagnosticScreen" -> {ScreenState(scr[name(element)])}
      [] class(element) \in Monitors -> {"in"}
      [] OTHER -> {"out"}

\* callable(getattr(element, "reading", None))
HasReading(element) ==
    \/ class(element) \in Monitors \cup {"ThreePoleWiggler", "DiagnosticScreen"}
    \/ name(element) \in {"attenuator", "attenuator2"}

\* element.has_flux
HasFlux(element) ==
    /\ class(element) # "DiagnosticScreen"
    /\ name(element) \notin {"attenuator", "attenuator2"}

\* Variant: the flag is set again for every element that does not block.
BeamAfter_reset(beam, state) == state # "block"

\* if state == "block": beam = False
BeamAfter(beam, state) == beam /\ state # "block"

\* The path column of the row.
PathSymbol(state, beam) ==
    CASE state = "in" -> IF beam THEN "(|)" ELSE "(-)"
      [] state = "out" -> IF beam THEN " | " ELSE "---"
      [] state = "block" -> "[X]"
      [] state = "undefined" -> IF beam THEN "?|?" ELSE "?-?"
      [] OTHER -> "???"

\* Variant: the reading is taken as Monitor.quickReading takes it: the
\* screen is inserted, read, and retracted.
ReadingLeaves_quick(scr, element) ==
    IF class(element) = "DiagnosticScreen" THEN [scr EXCEPT ![name(element)] = 0] ELSE scr

\* element.reading(verbosity=0): the screens are where they were.
ReadingLeaves(scr, element) == scr

\* The exception raised by the reading and transmission of an attenuator:
\* transmission() and absorber() return None where they only print.
ReadingError(element, E, pos) ==
    CASE name(element) = "attenuator" ->
            IF ~EnergySupported(E) THEN "TypeError" ELSE "none"
      [] name(element) = "attenuator2" ->
            IF ~EnergySupported(E) \/ ReadSlotRejected(SlotOfPosition(pos)) THEN "TypeError"
            ELSE IF LookupFails(E, SlotOfPosition(pos)) THEN "IndexError"
            ELSE "none"
      [] OTHER -> "none"

Verbosities == {0, 3}

\* beam.fluxes(verbosity): the code up to the loop
fluxes_call ==
    /\ fpc = "idle"
    /\ \E v \in Verbosities : fVerbosity' = v
    /\ fpc' = "loop"
    /\ fIdx' = 1
    /\ fBeam' = TRUE
    /\ fExpected' = FALSE
    /\ fBlockSeen' = FALSE
    /\ fRow' = << >>
    /\ fOutcome' = "running"
    /\ UNCHANGED <<vacVars, beamVars, pipeVars, otherVars, elements, screens>>

\* One pass of: for element in self.elements
fluxes_element ==
    /\ fpc = "loop"
    /\ fIdx <= Len(elements)
    /\ LET element == elements[fIdx] IN
       \E state \in StatesRead(element, screens), again \in StatesRead(element, screens) :
          LET beam == BeamAfter(fBeam, state)
              error == ReadingError(element, energy, armr)
          IN  /\ fBeam' = beam
              /\ fBlockSeen' = (fBlockSeen \/ state = "block")
              /\ IF fVerbosity < 1
                 THEN /\ fIdx' = fIdx + 1
                      /\ UNCHANGED <<screens, fpc, fExpected, fRow, fOutcome>>
                 ELSE IF error # "none"
                 THEN /\ fpc' = "idle"
                      /\ fOutcome' = error
                      /\ UNCHANGED <<screens, fIdx, fExpected, fRow>>
                 ELSE /\ fRow' = <<PathSymbol(state, beam), fExpected /\ beam>>
                      /\ fExpected' = IF HasReading(element) /\ HasFlux(element)
                                         /\ again \in {"in", "block"}
                                      THEN TRUE ELSE fExpected
                      /\ screens' = IF HasReading(element)
                                    THEN ReadingLeaves(screens, element) ELSE screens
                      /\ fIdx' = fIdx + 1
                      /\ UNCHANGED <<fpc, fOutcome>>
    /\ UNCHANGED <<vacVars, beamVars, pipeVars, otherVars, elements, fVerbosity>>

\* The end of the loop: the closing line of the table
fluxes_return ==
    /\ fpc = "loop"
    /\ fIdx > Len(elements)
    /\ fpc' = "idle"
    /\ fOutcome' = "returned"
    /\ UNCHANGED <<vacVars, beamVars, pipeVars, otherVars, elements, screens, fVerbosity, fIdx, fBeam, fExpected,
                   fBlockSeen, fRow>>

\* DiagnosticScreen.insert(), retract(): a screen is moved, or is under way
screen_moved ==
    /\ \E s \in ScreenNames, n \in ScreenReadings : screens' = [screens EXCEPT ![s] = n]
    /\ UNCHANGED <<vacVars, beamVars, pipeVars, otherVars, elements, fpc, fVerbosity, fIdx, fBeam, fExpected,
                   fBlockSeen, fRow, fOutcome>>

FluxInit == VacQuiet /\ BeamQuiet /\ FluxQuiet /\ PipeQuiet /\ OtherQuiet

FluxNext ==
    \/ fluxes_call
    \/ fluxes_element
    \/ fluxes_return
    \/ screen_moved
    \/ armr_moved
    \/ energy_changed

FluxSpec == FluxInit /\ [][FluxNext]_vars

\* ------------------------------------------- CMS_Beamline.changePipe
\* changePipe(max_tries): self._actuate_close(self._PV_SAXS_GV); tries = 1
changePipe_call ==
    /\ cpc = "idle"
    /\ \E m \in MaxTriesArgs : cMaxTries' = m
    /\ GV_SAXS' = "Close"
    /\ cTries' = 1
    /\ cpc' = "gvTest"
    /\ cOutcome' = "running"
    /\ UNCHANGED <<beamVars, fluxVars, otherVars, vent_Smpl, pump_Smpl, pump_Det, gatex, pump2_toggle,
                   WAXS_outlet_toggle, reads, ctl, hist, IV_SAXS, IV_KB, pump1_toggle, pump1_state>>

\* while self._actuate_state(self._PV_SAXS_GV) == 1: one test, and after
\* the loop the two _actuate_close calls of the pump 1 valves; tries = 1
changePipe_gvTest ==
    /\ cpc = "gvTest"
    /\ \E st \in {0, 1} :
          IF st = 1
          THEN /\ IF cTries <= cMaxTries
                  THEN /\ cTries' = cTries + 1
                       /\ UNCHANGED <<cpc, cOutcome>>
                  ELSE /\ cpc' = "idle"
                       /\ cOutcome' = "SAXS gate valve is not closed"
                       /\ cTries' = cTries
               /\ UNCHANGED <<IV_SAXS, IV_KB>>
          ELSE /\ IV_SAXS' = "Close"
               /\ IV_KB' = "Close"
               /\ cTries' = 1
               /\ cpc' = "ivTest"
               /\ cOutcome' = cOutcome
    /\ UNCHANGED <<vacVars, beamVars, fluxVars, otherVars, pump1_toggle, pump1_state, cMaxTries>>

\* while the state of BT:SAXS-IV:1 or of Mir:KB-IV:1 is 1: one test
changePipe_ivTest ==
    /\ cpc = "ivTest"
    /\ \E st1 \in {0, 1}, st2 \in {0, 1} :
          IF st1 = 1 \/ st2 = 1
          THEN IF cTries <= cMaxTries
               THEN /\ cTries' = cTries + 1
                    /\ UNCHANGED <<cpc, cOutcome>>
               ELSE /\ cpc' = "idle"
                    /\ cOutcome' = "valves for pump1 are NOT closed"
                    /\ cTries' = cTries
          ELSE /\ cpc' = "pumpTest"
               /\ UNCHANGED <<cTries, cOutcome>>
    /\ UNCHANGED <<vacVars, beamVars, fluxVars, otherVars, IV_SAXS, IV_KB, pump1_toggle, pump1_state, cMaxTries>>

\* while caget(...Pmp:1}Sts:Enbl-Sts) == 1 and tries <= max_tries: one test
changePipe_pumpTest ==
    /\ cpc = "pumpTest"
    /\ \E st \in {0, 1} :
          /\ pump1_state' = st
          /\ IF st = 1 /\ cTries <= cMaxTries
             THEN /\ cpc' = "pumpOff"
                  /\ cOutcome' = cOutcome
             ELSE /\ cpc' = "idle"
                  /\ cOutcome' = "returned"
    /\ UNCHANGED <<vacVars, beamVars, fluxVars, otherVars, IV_SAXS, IV_KB, pump1_toggle, cTries, cMaxTries>>

\* caput(...Pmp:1}Cmd:Enbl-Cmd, 0); time.sleep(1.0)
changePipe_pumpOff ==
    /\ cpc = "pumpOff"
    /\ pump1_toggle' = 0
    /\ cpc' = "pumpTest"
    /\ UNCHANGED <<vacVars, beamVars, fluxVars, otherVars, IV_SAXS, IV_KB, pump1_state, cTries, cMaxTries, cOutcome>>

\* The pump is enabled again (outside changePipe).
pump1_enabled ==
    /\ cpc = "idle"
    /\ pump1_toggle = 0
    /\ pump1_toggle' = 1
    /\ UNCHANGED <<vacVars, beamVars, fluxVars, otherVars, IV_SAXS, IV_KB, pump1_state, cpc, cTries, cMaxTries, cOutcome>>

PipeStep ==
    \/ changePipe_gvTest
    \/ changePipe_ivTest
    \/ changePipe_pumpTest
    \/ changePipe_pumpOff

PipeInit == VacQuiet /\ BeamQuiet /\ FluxQuiet /\ PipeQuiet /\ OtherQuiet

PipeNext ==
    \/ changePipe_call
    \/ PipeStep
    \/ pump1_enabled

PipeSpec == PipeInit /\ [][PipeNext]_vars

\* changePipe is an ordinary function: once called it runs on.
PipeFairSpec == PipeSpec /\ WF_vars(PipeStep)

\* ------------------------------------------ CMS_Beamline._changePipe
\* The hardware the plan is studied on: the enable status of a pump follows
\* the command written to that pump's own toggle.
StatusOf(toggle) == toggle

TriStates == {"Open", "Soft", "Close"}

\* The valves and pumps as the plan can find them; nothing is running.
PlanPipeInit ==
    /\ BeamQuiet
    /\ FluxQuiet
    /\ ValveQuiet
    /\ ModeQuiet
    /\ LinkamQuiet
    /\ vent_Smpl = "Close"
    /\ pump_Smpl = "Close"
    /\ pump_Det = "Close"
    /\ GV_SAXS \in {"Open", "Close"}
    /\ gatex = GateInPosition
    /\ pump2_toggle \in {0, 1}
    /\ pump2_state = StatusOf(pump2_toggle)
    /\ WAXS_outlet_toggle = 1
    /\ WAXS_outlet_sts = 1
    /\ Smpl_pressure = 9510
    /\ Det_pressure = 9510
    /\ plan = "none"
    /\ pc = "idle"
    /\ threshold = DefaultThreshold
    /\ result = "none"
    /\ guardClass = NoClass
    /\ order = << >>
    /\ opensAfterCoarse = 0
    /\ polls = 0
    /\ gateCmd = "none"
    /\ gvCmd = "none"
    /\ IV_SAXS \in TriStates
    /\ IV_KB = "Open"
    /\ pump_FS4 \in TriStates
    /\ pump1_toggle \in {0, 1}
    /\ pump1_state = StatusOf(pump1_toggle)
    /\ cpc = "idle"
    /\ cTries = 0
    /\ cMaxTries = DefaultMaxTries
    /\ cOutcome = "none"

\* RE(self._changePipe()): the run engine takes the plan
planChangePipe_call ==
    /\ RE_idle
    /\ plan' = "changePipe"
    /\ pc' = "cp_gvClose"
    /\ result' = "running"
    /\ order' = << >>
    /\ opensAfterCoarse' = 0
    /\ polls' = 0
    /\ UNCHANGED <<beamVars, fluxVars, pipeVars, otherVars, hw, reads, threshold, guardClass, gateCmd, gvCmd>>

\* yield from bps.mov(self._GV_SAXS, "Close")
planChangePipe_gvClose ==
    /\ pc = "cp_gvClose"
    /\ GV_SAXS' = "Close"
    /\ gvCmd' = "Close"
    /\ pc' = "cp_fs4Close"
    /\ UNCHANGED <<beamVars, fluxVars, pipeVars, otherVars, vent_Smpl, pump_Smpl, pump_Det, gatex,
                   pump2_toggle, WAXS_outlet_toggle, reads, plan, threshold, result, guardClass,
                   order, opensAfterCoarse, polls, gateCmd>>

\* yield from bps.mov(self._pump_FS4, "Close")
planChangePipe_fs4Close ==
    /\ pc = "cp_fs4Close"
    /\ pump_FS4' = "Close"
    /\ pc' = "cp_pipeClose"
    /\ UNCHANGED <<beamVars, fluxVars, pipeVars, valveVars, modeVars, linkamVars, hw, reads,
                   plan, threshold, result, guardClass, hist>>

\* The test of: while self._pump1_state.get() != 0, and where it leads
AfterPump1Test(st) == IF st # 0 THEN "cp_toggleOn" ELSE "idle"

\* yield from bps.mov(self._pump_Pipe, "Close"); then the first test of the loop
planChangePipe_pipeClose ==
    /\ pc = "cp_pipeClose"
    /\ IV_SAXS' = "Close"
    /\ pump1_state' = StatusOf(pump1_toggle)
    /\ pc' = AfterPump1Test(StatusOf(pump1_toggle))
    /\ result' = IF StatusOf(pump1_toggle) # 0 THEN result ELSE "completed"
    /\ polls' = 0
    /\ UNCHANGED <<beamVars, fluxVars, otherVars, hw, reads, plan, threshold, guardClass,
                   order, opensAfterCoarse, gateCmd, gvCmd,
                   IV_KB, pump1_toggle, cpc, cTries, cMaxTries, cOutcome>>

\* yield from bps.mov(self._pump2_toggle, 1); bps.sleep(1)
planChangePipe_toggleOn ==
    /\ pc = "cp_toggleOn"
    /\ pump2_toggle' = 1
    /\ pump2_state' = StatusOf(1)
    /\ pc' = "cp_toggleOff"
    /\ UNCHANGED <<beamVars, fluxVars, pipeVars, otherVars, vent_Smpl, pump_Smpl, pump_Det, GV_SAXS,
                   gatex, WAXS_outlet_toggle, WAXS_outlet_sts, Smpl_pressure, Det_pressure,
                   plan, threshold, result, guardClass, hist>>

\* yield from bps.mov(self._pump2_toggle, 0); bps.sleep(1); then the next
\* test of the loop
planChangePipe_toggleOff ==
    /\ pc = "cp_toggleOff"
    /\ pump2_toggle' = 0
    /\ pump2_state' = StatusOf(0)
    /\ pump1_state' = StatusOf(pump1_toggle)
    /\ pc' = AfterPump1Test(StatusOf(pump1_toggle))
    /\ result' = IF StatusOf(pump1_toggle) # 0 THEN result ELSE "completed"
    /\ polls' = Bump(polls)
    /\ UNCHANGED <<beamVars, fluxVars, otherVars, vent_Smpl, pump_Smpl, pump_Det, GV_SAXS,
                   gatex, WAXS_outlet_toggle, WAXS_outlet_sts, Smpl_pressure, Det_pressure,
                   plan, threshold, guardClass, order, opensAfterCoarse, gateCmd, gvCmd,
                   IV_SAXS, IV_KB, pump1_toggle, cpc, cTries, cMaxTries, cOutcome>>

PlanPipeStep ==
    \/ planChangePipe_gvClose
    \/ planChangePipe_fs4Close
    \/ planChangePipe_pipeClose
    \/ planChangePipe_toggleOn
    \/ planChangePipe_toggleOff

PlanPipeNext ==
    \/ planChangePipe_call
    \/ PlanPipeStep
    \/ stopPlan

PlanPipeSpec == PlanPipeInit /\ [][PlanPipeNext]_vars

\* The run engine keeps executing the plan until it ends or is stopped.
PlanPipeFairSpec == PlanPipeSpec /\ WF_vars(PlanPipeStep)

\* ---------------------------- CMS_Beamline._actuate_open, _actuate_close
\* The Pos-Sts value the function waits for: 1 is open, 0 is closed.
Commanded(fn) == IF fn = "_actuate_open" THEN 1 ELSE 0

\* The command PV the function writes 1 to.
CommandOf(fn) == IF fn = "_actuate_open" THEN "Opn" ELSE "Cls"

\* What Pos-Sts can read: closed, open, or neither.
PosReadings == {0, 1, 2}

\* Variant: the loop goes on whatever tries is.
MayRetry_unbounded(st, fn, tries, max) == st # Commanded(fn)

\* while caget(pv + "Pos-Sts") != 1 and tries < max_tries  (0 for close)
MayRetry(st, fn, tries, max) == st # Commanded(fn) /\ tries < max

\* _actuate_open(pv, max_tries), _actuate_close(pv, max_tries): tries = 1,
\* the first caput, the sleep
actuate_call ==
    /\ vpc = "idle"
    /\ \E fn \in {"_actuate_open", "_actuate_close"}, m \in ActuateTriesArgs :
          /\ vFn' = fn
          /\ vMaxTries' = m
          /\ vCmd' = CommandOf(fn)
    /\ vTries' = 1
    /\ vWrites' = 1
    /\ vReached' = FALSE
    /\ vLate' = 0
    /\ vOutcome' = "running"
    /\ vpc' = "test"
    /\ UNCHANGED <<vacVars, beamVars, fluxVars, pipeVars, pump_FS4, modeVars, linkamVars, vStatus>>

\* One test of the while loop and, if it passes, the body: tries += 1, the
\* caput, the sleep
actuate_test ==
    /\ vpc = "test"
    /\ \E st \in PosReadings :
          /\ vStatus' = st
          /\ vReached' = (vReached \/ st = Commanded(vFn))
          /\ IF MayRetry(st, vFn, vTries, vMaxTries)
             THEN /\ vTries' = IF vTries < MaxTriesSeen THEN vTries + 1 ELSE vTries
                  /\ vWrites' = IF vWrites < MaxTriesSeen THEN vWrites + 1 ELSE vWrites
                  /\ vLate' = IF vReached /\ vLate < MaxTriesSeen THEN vLate + 1 ELSE vLate
                  /\ vpc' = "test"
             ELSE /\ vpc' = "report"
                  /\ UNCHANGED <<vTries, vWrites, vLate>>
    /\ UNCHANGED <<vacVars, beamVars, fluxVars, pipeVars, pump_FS4, modeVars, linkamVars,
                   vFn, vMaxTries, vCmd, vOutcome>>

\* if verbosity >= 1 and caget(pv + "Pos-Sts") != 1: print("ERROR, ...")
actuate_report ==
    /\ vpc = "report"
    /\ \E st \in PosReadings :
          /\ vStatus' = st
          /\ vOutcome' = IF st # Commanded(vFn) THEN "ERROR" ELSE "returned"
    /\ vpc' = "idle"
    /\ UNCHANGED <<vacVars, beamVars, fluxVars, pipeVars, pump_FS4, modeVars, linkamVars,
                   vFn, vMaxTries, vCmd, vTries, vWrites, vReached, vLate>>

ActuateStep ==
    \/ actuate_test
    \/ actuate_report

ActuateInit == VacQuiet /\ BeamQuiet /\ FluxQuiet /\ PipeQuiet /\ OtherQuiet

ActuateNext ==
    \/ actuate_call
    \/ ActuateStep

ActuateSpec == ActuateInit /\ [][ActuateNext]_vars

\* The function is an ordinary function: once called it runs on.
ActuateFairSpec == ActuateSpec /\ WF_vars(ActuateStep)

\* ==================================================================
\* The mode switches of the beamline object
\* ==================================================================
\* Attenuation of one Nb foil and of one Al foil at 13.5 keV, d/l in
\* thousandths; a transmission above 3e-8 is a total below -ln(3e-8).
AttenuationNb == 2900
AttenuationAl == 687
AlignmentLimit == 17322
\* The foils setTransmission(1e-8) selects at 13.5 keV: 4 Nb and 10 Al.
AlignmentFoils == FoilPattern(4, 10)
MeasurementFoils == FoilPattern(0, 0)
\* Beamstop position in hundredths of a mm from bsx_pos.
AlignmentOffset == 300
BsxTolerance == 10
BsxReadbacks == {0, BsxTolerance, BsxTolerance + 1}

\* beam.transmission() > 3e-8 for the foils that are in.
TransmissionAbove(f) ==
    FoilsNb(f) * AttenuationNb + FoilsAl(f) * AttenuationAl < AlignmentLimit

modeFrame ==
    /\ tForgotten
    /\ aForgotten
    /\ UNCHANGED <<vacVars, fluxVars, pipeVars, pump_FS4, valveVars, linkamVars, energy, bpc>>

\* beam.on() between two mode switches.
beam_on ==
    /\ mpc = "idle"
    /\ shutter = "closed"
    /\ shutter' = "open"
    /\ UNCHANGED <<vacVars, beamVars, fluxVars, pipeVars, pump_FS4, valveVars, linkamVars>>
    /\ UNCHANGED <<current_mode, mpc, mFn, mEnded, bsx, detSel>>

\* modeAlignment up to its first test of the transmission.
modeAlignment_call ==
    /\ mpc = "idle"
    /\ bpc = "idle"
    /\ current_mode' = "undefined"
    /\ shutter' = "closed"
    /\ \E stuck \in StuckChoices : filters' = FoilsAfter(filters, AlignmentFoils, stuck)
    /\ mFn' = "modeAlignment"
    /\ mEnded' = "running"
    /\ mpc' = "align_wait"
    /\ modeFrame
    /\ UNCHANGED <<armr, bsx, detSel>>

\* The test of the while loop, and what follows the loop.
modeAlignment_wait ==
    /\ mpc = "align_wait"
    /\ IF TransmissionAbove(filters)
       THEN /\ \E stuck \in StuckChoices : filters' = FoilsAfter(filters, AlignmentFoils, stuck)
            /\ UNCHANGED <<current_mode, mpc, mEnded, bsx, detSel>>
       ELSE /\ bsx' = AlignmentOffset
            /\ detSel' = "stats4_total"
            /\ current_mode' = "alignment"
            /\ mEnded' = "completed"
            /\ mpc' = "idle"
            /\ UNCHANGED filters
    /\ modeFrame
    /\ UNCHANGED <<armr, mFn, shutter>>

\* modeMeasurement up to the move of the beamstop.
modeMeasurement_call ==
    /\ mpc = "idle"
    /\ bpc = "idle"
    /\ current_mode' = "undefined"
    /\ shutter' = "closed"
    /\ bsx' \in BsxReadbacks
    /\ mFn' = "modeMeasurement"
    /\ mEnded' = "running"
    /\ mpc' = "meas_check"
    /\ modeFrame
    /\ UNCHANGED <<filters, armr, detSel>>

\* The test of the beamstop position, and the rest of modeMeasurement.
modeMeasurement_check ==
    /\ mpc = "meas_check"
    /\ IF Abs(bsx) > BsxTolerance
       THEN /\ mEnded' = "early"
            /\ UNCHANGED <<filters, detSel, current_mode>>
       ELSE /\ \E stuck \in StuckChoices : filters' = FoilsAfter(filters, MeasurementFoils, stuck)
            /\ detSel' = "pilatus"
            /\ current_mode' = "measurement"
            /\ mEnded' = "completed"
    /\ mpc' = "idle"
    /\ modeFrame
    /\ UNCHANGED <<armr, bsx, mFn, shutter>>

\* modeXRMeasurement up to the move of the beamstop.
modeXRMeasurement_call ==
    /\ mpc = "idle"
    /\ bpc = "idle"
    /\ shutter' = "closed"
    /\ bsx' \in BsxReadbacks
    /\ mFn' = "modeXRMeasurement"
    /\ mEnded' = "running"
    /\ mpc' = "xr_check"
    /\ modeFrame
    /\ UNCHANGED <<current_mode, filters, armr, detSel>>

\* The test of the beamstop position; then the filters, the absorber
\* and the assignment of the mode.
modeXRMeasurement_check ==
    /\ mpc = "xr_check"
    /\ IF Abs(bsx) > BsxTolerance
       THEN /\ mEnded' = "early"
            /\ mpc' = "idle"
            /\ UNCHANGED <<filters, armr, current_mode>>
       ELSE /\ \E stuck \in StuckChoices : filters' = FoilsAfter(filters, MeasurementFoils, stuck)
            /\ armr' \in {ArmrOrigin + d : d \in MoveOffsets} \cup {armr}
            /\ current_mode' = "XR"
            /\ mpc' = "xr_detselect"
            /\ UNCHANGED mEnded
    /\ modeFrame
    /\ UNCHANGED <<bsx, mFn, shutter, detSel>>

\* detselect and definePos, after the mode was assigned.
modeXRMeasurement_detselect ==
    /\ mpc = "xr_detselect"
    /\ detSel' = "pilatus800"
    /\ mEnded' = "completed"
    /\ mpc' = "idle"
    /\ modeFrame
    /\ UNCHANGED <<filters, armr, current_mode, bsx, mFn, shutter>>

ModeStep ==
    \/ modeAlignment_wait
    \/ modeMeasurement_check
    \/ modeXRMeasurement_check
    \/ modeXRMeasurement_detselect

ModeInit == VacQuiet /\ BeamQuiet /\ FluxQuiet /\ PipeQuiet /\ OtherQuiet

ModeNext ==
    \/ beam_on
    \/ modeAlignment_call
    \/ modeMeasurement_call
    \/ modeXRMeasurement_call
    \/ ModeStep

ModeSpec == ModeInit /\ [][ModeNext]_vars

\* ==================================================================
\* The simulated Linkam controller (temperatures in tenths of a degree)
\* ==================================================================
\* A ramp rate r gives steps of r * 0.1 degrees, r tenths.
AtTarget == 1
NearTarget == 5
StatusAtSetpoint == 1
StatusHeating == 2
\* What clients write to SETPOINT:SET, RAMPRATE:SET and TEMP.
SetpointArgs == {RoomTemperature, RoomTemperature + 6}
RateArgs == {-3, 3}
TempArgs == {RoomTemperature}
\* The temperatures followed.
TempLow == RoomTemperature
TempHigh == RoomTemperature + 9

Smaller(a, b) == IF a < b THEN a ELSE b

\* The step taken the wrong way round: away from the target.
PollerStep_away(diff, rate) == Smaller(Abs(diff), rate) * (IF diff > 0 THEN -1 ELSE 1)
\* step = min(abs(diff), ramp_rate * 0.1) * (1 if diff > 0 else -1)
PollerStep(diff, rate) == Smaller(Abs(diff), rate) * (IF diff > 0 THEN 1 ELSE -1)
\* status_val = 1 if abs(diff) < 0.5 else 2
StatusFor(diff) == IF Abs(diff) < NearTarget THEN StatusAtSetpoint ELSE StatusHeating

Running == {t \in Threads : lpc[t] # "none"}

linkamFrame ==
    UNCHANGED <<vacVars, beamVars, fluxVars, pipeVars, pump_FS4, valveVars, modeVars>>

\* start_poller: a new thread, unless one is on record.
start_poller ==
    /\ ~settled
    /\ ~joining
    /\ IF poller_thread = 0
       THEN /\ stop_poller' = FALSE
            /\ \E t \in Threads :
                  /\ lpc[t] = "none"
                  /\ \A u \in Threads : lpc[u] = "none" => t <= u
                  /\ poller_thread' = t
                  /\ lpc' = [lpc EXCEPT ![t] = "loop"]
       ELSE UNCHANGED <<stop_poller, poller_thread, lpc>>
    /\ linkamFrame
    /\ UNCHANGED <<current_temp, target_temp, ramp_rate, heating, status, ldiff, joining, settled>>

\* shutdown up to the join.
shutdown_call ==
    /\ ~settled
    /\ ~joining
    /\ IF poller_thread # 0
       THEN /\ stop_poller' = TRUE
            /\ joining' = TRUE
       ELSE UNCHANGED <<stop_poller, joining>>
    /\ linkamFrame
    /\ UNCHANGED <<current_temp, target_temp, ramp_rate, heating, status, poller_thread, lpc, ldiff, settled>>

\* join(timeout=2.0) returns, the thread ended or not; the record is dropped.
shutdown_return ==
    /\ joining
    /\ joining' = FALSE
    /\ poller_thread' = 0
    /\ linkamFrame
    /\ UNCHANGED <<current_temp, target_temp, ramp_rate, heating, status, stop_poller, lpc, ldiff, settled>>

\* One pass of the poller's loop up to `if abs(diff) > 0.1`: the test of
\* the stop event, the read of _heating, the difference.
poller_test(t) ==
    /\ lpc[t] = "loop"
    /\ IF stop_poller
       THEN /\ lpc' = [lpc EXCEPT ![t] = "none"]
            /\ UNCHANGED ldiff
       ELSE IF heating
            THEN /\ ldiff' = [ldiff EXCEPT ![t] = target_temp - current_temp]
                 /\ lpc' = [lpc EXCEPT ![t] = "update"]
            ELSE UNCHANGED <<lpc, ldiff>>
    /\ linkamFrame
    /\ UNCHANGED <<current_temp, target_temp, ramp_rate, heating, status, stop_poller, poller_thread,
                   joining, settled>>

\* The rest of the pass: the step, the writes of TEMP and STATUS, the sleep.
poller_update(t) ==
    /\ lpc[t] = "update"
    /\ IF Abs(ldiff[t]) > AtTarget
       THEN /\ current_temp' = current_temp + PollerStep(ldiff[t], ramp_rate)
            /\ current_temp' \in TempLow..TempHigh
            /\ status' = StatusFor(ldiff[t])
       ELSE /\ status' = StatusAtSetpoint
            /\ UNCHANGED current_temp
    /\ lpc' = [lpc EXCEPT ![t] = "loop"]
    /\ ldiff' = [ldiff EXCEPT ![t] = 0]
    /\ linkamFrame
    /\ UNCHANGED <<target_temp, ramp_rate, heating, stop_poller, poller_thread, joining, settled>>

PollerStepOf(t) == poller_test(t) \/ poller_update(t)

poller ==
    \E t \in Threads : PollerStepOf(t)

\* A client writes STARTHEAT.
heater_put ==
    /\ ~settled
    /\ \E v \in BOOLEAN : heating' = v
    /\ linkamFrame
    /\ UNCHANGED <<current_temp, target_temp, ramp_rate, status, stop_poller, poller_thread, lpc, ldiff,
                   joining, settled>>

\* A client writes SETPOINT:SET.
temperature_setpoint_put ==
    /\ ~settled
    /\ \E v \in SetpointArgs : target_temp' = v
    /\ linkamFrame
    /\ UNCHANGED <<current_temp, ramp_rate, heating, status, stop_poller, poller_thread, lpc, ldiff,
                   joining, settled>>

\* A client writes RAMPRATE:SET.
temperature_rate_put ==
    /\ ~settled
    /\ \E v \in RateArgs : ramp_rate' = v
    /\ linkamFrame
    /\ UNCHANGED <<current_temp, target_temp, heating, status, stop_poller, poller_thread, lpc, ldiff,
                   joining, settled>>

\* A client writes TEMP.
temperature_current_put ==
    /\ ~settled
    /\ \E v \in TempArgs : current_temp' = v
    /\ linkamFrame
    /\ UNCHANGED <<target_temp, ramp_rate, heating, status, stop_poller, poller_thread, lpc, ldiff,
                   joining, settled>>

\* From here on no client writes and no poller is started or shut down.
clients_done ==
    /\ ~settled
    /\ ~joining
    /\ settled' = TRUE
    /\ linkamFrame
    /\ UNCHANGED <<current_temp, target_temp, ramp_rate, heating, status, stop_poller, poller_thread,
                   lpc, ldiff, joining>>

LinkamInit == VacQuiet /\ BeamQuiet /\ FluxQuiet /\ PipeQuiet /\ OtherQuiet

LinkamNext ==
    \/ start_poller
    \/ shutdown_call
    \/ shutdown_return
    \/ poller
    \/ heater_put
    \/ temperature_setpoint_put
    \/ temperature_rate_put
    \/ temperature_current_put
    \/ clients_done

LinkamSpec == LinkamInit /\ [][LinkamNext]_vars

\* A started thread keeps running its loop.
LinkamFairSpec == LinkamSpec /\ \A t \in Threads : WF_vars(PollerStepOf(t))

\* ==================================================================
\* Properties of the vacuum sequencer
\* ==================================================================
ToggleLoop == {"p_toggleOff", "p_toggleOn"}
PollLoops == {"p_waitCoarse", "p_waitThreshold", "v_outletOff", "v_waitSoft", "v_waitFull"}

\* C1: starting with both valves closed, through any sequence of pump and
\* vent plans, each run to its end or stopped between two steps, the sample
\* pump valve and the sample vent valve are never both non-closed.
C1_PumpVentExclusive ==
    ~(pump_Smpl # "Close" /\ vent_Smpl # "Close")

\* A pump plan opened the pump valve after an earlier vent plan had run.
C1_Witness ==
    /\ plan = "pumpSample"
    /\ pump_Smpl = "Open"
    /\ gvCmd = "Close"
    /\ gateCmd = "in"

C3_VentOnlyBehindClosedGates ==
    vent_Smpl # "Close" =>
        /\ gatex = GateInPosition
        /\ gateCmd = "in"
        /\ GV_SAXS = "Close"
        /\ gvCmd = "Close"

\* A vent plan has commanded the vent valve Soft.
C3_Witness ==
    /\ plan = "ventSample"
    /\ vent_Smpl = "Soft"
    /\ Happened("vent_Smpl:Soft")

\* C4: in a pump plan that passed the guard, the sample vent valve Close and
\* the detector pump valve Close are both issued before the first Open of
\* the sample pump valve.
C4_InterlockBeforeRoughing ==
    plan = "pumpSample" =>
        /\ Precedes("vent_Smpl:Close", "pump_Smpl:Open")
        /\ Precedes("pump_Det:Close", "pump_Smpl:Open")
        /\ Precedes("vent_Smpl:Close", "pump_Det:Close")
        /\ (pc = "p_open" => vent_Smpl = "Close" /\ pump_Det = "Close")

\* A pump plan has issued its first Open of the sample pump valve.
C4_Witness ==
    /\ plan = "pumpSample"
    /\ Happened("pump_Smpl:Open")
    /\ pump_Smpl = "Open"

\* C5: the off-then-on toggle of the pump enable is repeated only a bounded
\* number of times: the toggle loop is always left.
C5_ToggleLoopIsLeft ==
    (pc \in ToggleLoop) ~> (pc \notin ToggleLoop)

\* C6: the pump and vent plans always end: every poll loop (pressure above
\* 500 mbar or above the threshold, pressure below 800 or 950 mbar, outlet
\* power still on) is left after a bounded number of polls.
C6_PollLoopsAreLeft ==
    (pc \in PollLoops) ~> (pc \notin PollLoops)

\* C7: in a pump plan the detector pump valve is re-opened and the window
\* gate is opened only after a sample-pressure reading at or below the
\* threshold, and the detector pump valve is re-opened before the gate moves.
C7_CompletionAfterThreshold ==
    plan = "pumpSample" =>
        /\ Precedes("read:threshold reached", "pump_Det:Open")
        /\ Precedes("pump_Det:Open", "gatex:out")
        /\ (pc = "p_detOpen" => Smpl_pressure <= threshold)
        /\ (pc = "p_gateOut" => Smpl_pressure <= threshold /\ pump_Det = "Open")

\* A pump plan ran to its end.
C7_Witness ==
    /\ plan = "pumpSample"
    /\ result = "completed"
    /\ Happened("gatex:out")

\* C8: in a pump plan exactly one Open of the sample pump valve is issued
\* after the first reading that no longer exceeds 500 mbar, and the wait for
\* the threshold ends at the first later poll that reads at or below it.
C8_OneFullOpenThenComplete ==
    plan = "pumpSample" =>
        /\ opensAfterCoarse <= 1
        /\ (pc \in {"p_waitThreshold", "p_detOpen", "p_gateOut"} => opensAfterCoarse = 1)
        /\ (result = "completed" => opensAfterCoarse = 1 /\ Happened("read:threshold reached"))
        /\ (opensAfterCoarse = 1 => Happened("read:coarse reached") /\ pump_Smpl = "Open")
        /\ (pc = "p_waitThreshold" => ~Happened("read:threshold reached"))

\* The run of the scenario: the last poll read 0.5 mbar with the default
\* threshold, and the plan ran to its end.
C8_Witness ==
    /\ plan = "pumpSample"
    /\ result = "completed"
    /\ threshold = DefaultThreshold
    /\ Smpl_pressure = 5
    /\ opensAfterCoarse = 1

\* C9: in a vent plan the gate valve Close, an off reading of the outlet
\* power status and the closing of the window gate happen, in that order,
\* before the first write to the sample pump valve or the sample vent valve.
C9_VentInterlockOrder ==
    plan = "ventSample" =>
        /\ Precedes("GV_SAXS:Close", "read:outlet off")
        /\ Precedes("read:outlet off", "gatex:in")
        /\ Precedes("gatex:in", "pump_Smpl:Close")
        /\ Precedes("gatex:in", "vent_Smpl:Soft")
        /\ Precedes("gatex:in", "vent_Smpl:Open")
        /\ (pc = "v_pumpClose" =>
               GV_SAXS = "Close" /\ WAXS_outlet_sts # 1 /\ gatex = GateInPosition)

\* A vent plan closed the sample pump valve after toggling the outlet off.
C9_Witness ==
    /\ plan = "ventSample"
    /\ Happened("WAXS_outlet_toggle:0")
    /\ Happened("pump_Smpl:Close")

\* C10, as stated: in a vent plan the sample pump valve is closed before the
\* vent valve is commanded Soft; the vent valve is commanded Open only after
\* a reading that exceeds 800 mbar; the plan completes only after a reading
\* that exceeds 950 mbar.
C10_VentThresholdsExceeded ==
    plan = "ventSample" =>
        /\ Precedes("pump_Smpl:Close", "vent_Smpl:Soft")
        /\ (pc = "v_open" => Smpl_pressure > SoftVentThreshold)
        /\ (result = "completed" => Smpl_pressure > FullVentThreshold)

\* C10, amended: the vent valve is commanded Open only after a reading of at
\* least 800 mbar, and the plan completes only after a reading of at least
\* 950 mbar.
C10_VentThresholdsReached ==
    plan = "ventSample" =>
        /\ Precedes("pump_Smpl:Close", "vent_Smpl:Soft")
        /\ Precedes("vent_Smpl:Soft", "vent_Smpl:Open")
        /\ (pc = "v_soft" => pump_Smpl = "Close")
        /\ (pc = "v_open" => Smpl_pressure >= SoftVentThreshold)
        /\ (result = "completed" =>
               Smpl_pressure >= FullVentThreshold /\ vent_Smpl = "Open")

\* A vent plan completed on a reading of exactly 950 mbar.
C10_Witness ==
    /\ plan = "ventSample"
    /\ result = "completed"
    /\ Smpl_pressure = FullVentThreshold
    /\ vent_Smpl = "Open"

C12_CancelKeepsValves ==
    [][result' = "stopped" => hw' = hw]_vars

\* A vent procedure was cancelled while the sample vent valve was soft-open.
C12_Witness ==
    result = "stopped" /\ plan = "ventSample" /\ vent_Smpl = "Soft"

\* ==================================================================
\* Properties of the filter box (CMSBeam.setTransmission)

\* The energies and arguments for which setTransmission runs its double loop.
ScannedInputs ==
    {q \in Energies \X TargetArgs : EnergySupported(q[1]) /\ TargetAccepted(q[2])}

\* Brute force: the least of the 256 deviations.
LeastDeviation(E, target) ==
    LET devs == {Dev(E, target, k) : k \in 0..255}
    IN  CHOOSE d \in devs : \A e \in devs : d <= e

\* Brute force: for each scanned input, the indices k = 16 * N_Nb + N_Al of
\* the pairs whose deviation is the least one.
Minimisers ==
    {<<q[1], q[2], LET least == LeastDeviation(q[1], q[2])
                   IN  {k \in 0..255 : Dev(q[1], q[2], k) = least}>> :
        q \in ScannedInputs}

MinimisersOf(E, target) ==
    (CHOOSE r \in Minimisers : r[1] = E /\ r[2] = target)[3]

\* A request whose last pass ran the double loop.
Scanned == tPasses > 0

SelectedIndex == 16 * tSel[1] + tSel[2]

\* C13: for every accepted target and supported tEnergy, the pair the double
\* loop ends with attains the minimum deviation over all 256 pairs.
C13_SelectedAttainsMinimum ==
    Scanned => SelectedIndex \in MinimisersOf(tEnergy, tTarget)

\* A scan that ended on a pair with foils of both kinds.
C13_Witness ==
    Scanned /\ tEnergy = 13500 /\ tTarget = 17 /\ tSel = <<1, 5>>

\* C14 (as stated): among several pairs of the same minimal deviation the
\* first one in scan order is selected (lowest N_Nb, then lowest N_Al).
C14_TieFirstFound ==
    Scanned => \A k \in MinimisersOf(tEnergy, tTarget) : SelectedIndex <= k

\* C14 (amended): among several pairs of the same minimal deviation the
\* last one in scan order is selected (highest N_Nb, then highest N_Al).
C14_TieLastFound ==
    Scanned => \A k \in MinimisersOf(tEnergy, tTarget) : SelectedIndex >= k

\* A scan in which several pairs have the minimal deviation.
C14_Witness ==
    Scanned /\ Cardinality(MinimisersOf(tEnergy, tTarget)) > 1

\* The decomposition and recomposition agree on every pair of counts.
AllPatternsRecompose ==
    \A nNb \in 0..15, nAl \in 0..15 :
        /\ FoilsAl(FoilPattern(nNb, nAl)) = nAl
        /\ FoilsNb(FoilPattern(nNb, nAl)) = nNb
        /\ Len(FoilPattern(nNb, nAl)) = 8
        /\ \A i \in 1..8 : FoilPattern(nNb, nAl)[i] \in {0, 1}

\* C15: the 8-element pattern built from N_Al and N_Nb (least significant
\* bit first, Al on foils 1-4, Nb on foils 5-8) is recomposed by
\* calc_transmission_filters into the same counts, and holds only 0 and 1:
\* for all counts in 0..15, and for the pattern every pass hands to the foils.
C15_PatternRoundTrip ==
    /\ AllPatternsRecompose
    /\ Scanned =>
          /\ FoilsAl(tPattern) = tSel[2]
          /\ FoilsNb(tPattern) = tSel[1]
          /\ \A i \in 1..8 : tPattern[i] \in {0, 1}

\* A pattern with foils of both kinds in and out was handed to the foils.
C15_Witness ==
    Scanned /\ tSel = <<5, 4>> /\ tPattern = <<0, 0, 1, 0, 1, 0, 1, 0>>

\* C20: with a supported tEnergy and an accepted target the request makes at
\* most retries + 1 foil-setting passes; when the read-back still deviates
\* after the last one, the request ends with a warning and returns the
\* transmission achieved, it does not raise.
C20_BoundedRetries ==
    (tOutcome # "none" /\ EnergySupported(tEnergy) /\ TargetAccepted(tTarget)) =>
        /\ tPasses + tRetries <= tRetriesArg + 1
        /\ tPasses <= tRetriesArg + 1
        /\ tOutcome \in {"running", "returned"}
        /\ (tOutcome = "returned" /\ "WARNING didn't update" \in tReport) =>
              /\ tPasses = tRetriesArg + 1
              /\ tReturn = calc_transmission_filters(filters, tEnergy)
              /\ DeviationExceeds(tReturn, tTarget)

\* The default three retries were used up: four passes, then the warning.
C20_Witness ==
    /\ tOutcome = "returned"
    /\ "WARNING didn't update" \in tReport
    /\ tRetriesArg = DefaultRetries
    /\ tPasses = DefaultRetries + 1
    /\ EnergySupported(tEnergy) /\ TargetAccepted(tTarget)

\* ==================================================================
\* Properties of the energy and slot checks (setTransmission, setAbsorber,
\* absorber)

\* Below 6 keV or above 18 keV.
OutsideEnergyRange(E) == E < 6000 \/ E > 18000

C18_EverySlotServed ==
    (aFn = "setAbsorber" /\ aSlot \in 0..8 /\ ~OutsideEnergyRange(aEnergy)
        /\ aOutcome # "running") =>
        /\ aMoves >= 1
        /\ aReport \subseteq {"WARNING didn't update"}
        /\ aOutcome \in {"returned", "returned None"}
        /\ aOutcome = "returned" =>
              /\ Abs(armr - (ArmrOrigin + aSlot * SlotPitch)) <= MoveTolerance
              /\ aReturn = <<aSlot, absorber_transmission_list(aEnergy)[aSlot + 1]>>

\* C19: when absorber() computes a slot outside [0,8] from the position, it
\* reports the error and does not index the transmission table with it.
C19_ReadSlotOutsideNeverIndexed ==
    (aFn = "absorber" /\ ~OutsideEnergyRange(aEnergy) /\ (rSlot < 0 \/ rSlot > 8)) =>
        /\ aLookups = << >>
        /\ aReport = {"slot should be in [0, 8]"}

\* ==================================================================
\* Properties of the retries and of the tables

\* The position setAbsorber drives the motor to for its slot argument.
SlotPosition == ArmrOrigin + aSlot * SlotPitch

\* A setAbsorber request has returned to its caller.
SetAbsorberReturned ==
    aFn = "setAbsorber" /\ aOutcome \in {"returned", "returned None"}

\* C21: setAbsorber issues at most retries + 1 moves; whenever the final
\* position is within the tolerance of the slot position, on the first
\* attempt or on a retry, the value returned is the (slot, transmission)
\* pair of the table; when the retries are exhausted the warning is given.
C21_RetryReturnsTableResult ==
    (aFn = "setAbsorber" /\ aOutcome # "none") =>
        /\ aMoves <= aRetriesArg + 1
        /\ SetAbsorberReturned =>
              IF Abs(armr - SlotPosition) <= MoveTolerance
              THEN /\ aDepth = 0   \* with calls waiting the value is a nested pair
                   /\ aReturn = <<aSlot, absorber_transmission_list(aEnergy)[aSlot + 1]>>
              ELSE "WARNING didn't update" \in aReport /\ aMoves = aRetriesArg + 1

\* An out-of-range setTransmission or setAbsorber request.
TargetOutOfRange == tOutcome # "none" /\ (tTarget > 10000 \/ tTarget < 1)
SlotOutOfRange == aFn = "setAbsorber" /\ (aSlot < 0 \/ aSlot > 8)

\* C22: an out-of-range request (target above 1.0 or below 1e-10, slot out
\* of range) is surfaced after a single attempt and never retried, whatever
\* the read-back and the retries argument.
C22_OutOfRangeNeverRetried ==
    /\ TargetOutOfRange => tRetries = tRetriesArg
    /\ SlotOutOfRange => aRetries = aRetriesArg /\ aDepth = 0

\* The supported energies at which every absorber entry is not larger than
\* the one before it, and one more Al or Nb foil never raises the result of
\* calc_transmission_filters.
MonotoneEnergies ==
    {E \in Energies :
        /\ EnergySupported(E)
        /\ \A s \in 1..(Len(absorber_transmission_list(E)) - 1) :
              absorber_transmission_list(E)[s + 1] <= absorber_transmission_list(E)[s]
        /\ \A nNb \in 0..15, nAl \in 0..14 :
              calc_transmission_filters(FoilPattern(nNb, nAl + 1), E)
                 <= calc_transmission_filters(FoilPattern(nNb, nAl), E)
        /\ \A nNb \in 0..14, nAl \in 0..15 :
              calc_transmission_filters(FoilPattern(nNb + 1, nAl), E)
                 <= calc_transmission_filters(FoilPattern(nNb, nAl), E)}

\* C23: transmission is non-increasing in the attenuation, in every absorber
\* table and for the filter bank: at every supported energy the beam is at,
\* and for the values the functions return there.
C23_TransmissionNonIncreasing ==
    /\ EnergySupported(energy) => energy \in MonotoneEnergies
    /\ \A E \in {13500, 17000, 10000, 18000} : E \in MonotoneEnergies
    /\ (aFn = "absorber" /\ aOutcome = "returned") =>
          \A s \in 0..rSlot : aReturn[2] <= absorber_transmission_list(aEnergy)[s + 1]

\* absorber() has returned the entry of slot 6 at an energy served by the
\* calculated table.
C23_Witness ==
    aFn = "absorber" /\ aOutcome = "returned" /\ aEnergy = 18000 /\ rSlot = 6

\* The target of a request that hands a transmission to setAbsorber, in 1e-9.
AbsorberTarget == aSlotFrac * 100000

\* C24: a target transmission requested on the absorber path is mapped to
\* the slot whose table entry is closest to the target: the entry returned
\* is at least as close as every other entry, and at 13.5 keV the target
\* 0.0017 selects slot 2 and returns 0.0017425.
C24_TargetSelectsNearestSlot ==
    (SetAbsorberReturned /\ aOutcome = "returned" /\ aDepth = 0 /\ aSlotFrac > 0) =>
        /\ \A s \in 1..Len(absorber_transmission_list(aEnergy)) :
              Abs(aReturn[2] - AbsorberTarget)
                 <= Abs(absorber_transmission_list(aEnergy)[s] - AbsorberTarget)
        /\ (aEnergy = 13500 /\ aSlotFrac = 17) =>
              aLookups = <<2>> /\ aReturn[2] = 1742500

\* C25: absorberCalcTransmission uses the table of the current energy; in
\* every case slot 0 maps to transmission 1 and every slot in [0,8] has an
\* entry, so no lookup with a slot in [0,8] fails.
C25_EverySlotHasEntry ==
    /\ EnergySupported(energy) =>
          /\ absorber_transmission_list(energy)[1] = 1000000000
          /\ (Abs(energy - 13500) < 10 =>
                 absorber_transmission_list(energy) = AbsorberList_13p5kev)
          /\ (Abs(energy - 17000) < 10 =>
                 absorber_transmission_list(energy) = AbsorberList_17kev)
          /\ (Abs(energy - 10000) < 100 =>
                 absorber_transmission_list(energy) = AbsorberList_10kev)
    /\ (aFn \in {"setAbsorber", "absorber"} /\ aLookups # << >>
           /\ aLookups[Len(aLookups)] \in 0..8) =>
          /\ aOutcome # "IndexError"
          /\ aLookups[Len(aLookups)] < Len(absorber_transmission_list(aEnergy))

\* C26: for every pair of pressure readings diffPressure returns one of the
\* four classes 0, 1, 2, 3: the class a pump procedure has read is never
\* missing, also for equal readings between 1 and 950 mbar.
C26_AlwaysOneOfFourClasses ==
    plan = "pumpSample" => guardClass \in {0, 1, 2, 3}

\* ---------------------------------------------------------------------
\* The beam-path report
\* ---------------------------------------------------------------------
BlockedSymbols == {"[X]", "(-)", "---", "?-?"}

\* C27: once a state read by a report was 'block', the beam flag of the
\* report is false and stays so, and every row printed from that element on
\* shows a blocked path symbol and no expected flux.
C27_BlockedDownstream ==
    fBlockSeen =>
        /\ ~fBeam
        /\ (fRow # << >> => fRow[1] \in BlockedSymbols /\ ~fRow[2])

\* A monitor behind a blocking element is shown with the beam off, and
\* without an expected flux although a flux was read upstream.
C27_Witness ==
    /\ fBlockSeen
    /\ fExpected
    /\ fRow = <<"(-)", FALSE>>

Sorted(list) ==
    \A i \in 1..(Len(list) - 1) : zposition(list[i]) <= zposition(list[i + 1])

\* C28: the element list is sorted by zposition ascending after
\* construction and at every later state, and it holds the elements that
\* were appended, no more and no less.
C28_ElementsStaySorted ==
    /\ Sorted(elements)
    /\ Len(elements) = Len(AppendOrder)
    /\ {elements[i] : i \in 1..Len(elements)} = {AppendOrder[i] : i \in 1..Len(AppendOrder)}

\* A report has gone through the whole list.
C28_Witness ==
    /\ fOutcome = "returned"
    /\ fIdx = Len(elements) + 1
    /\ fVerbosity >= 1

fluxesState == <<fpc, fVerbosity, fIdx, fBeam, fExpected, fBlockSeen, fRow, fOutcome>>

\* C29: a step of fluxes() writes to no control point and moves no
\* actuator: the valves, the pumps, the gate, the foils, the absorber motor
\* and the screens are where they were.
C29_FluxesWritesNothing ==
    [][fluxesState' # fluxesState =>
          UNCHANGED <<hw, IV_SAXS, IV_KB, pump1_toggle, filters, armr, screens>>]_vars

\* A report with readings has passed both screens while they were in the beam.
C29_Witness ==
    /\ fpc = "loop"
    /\ fVerbosity >= 1
    /\ fIdx > 19
    /\ screens["fs3"] = 1
    /\ screens["fs4"] = 1

\* ---------------------------------------------------------------------
\* changePipe
\* ---------------------------------------------------------------------
PumpLoop == {"pumpTest", "pumpOff"}

\* C30: changePipe ends after a bounded number of polls even when the
\* pump 1 enable status keeps reading 1: the turn-off loop is always left.
C30_PumpLoopIsLeft ==
    (cpc \in PumpLoop) ~> (cpc \notin PumpLoop)

\* ---------------------------------------------------------------------
\* Set and read back
\* ---------------------------------------------------------------------
\* C33: whenever setAbsorber(slot) has returned with the motor within the
\* tolerance (0.5 mm) of the slot position, absorber() computes that same
\* slot from the motor position.
C33_ReadBackSameSlot ==
    (SetAbsorberReturned /\ aOutcome = "returned" /\ aSlotFrac = 0
        /\ Abs(armr - SlotPosition) <= MoveTolerance) =>
        SlotOfPosition(armr) = aSlot

AllFoilsOut == [i \in 1..8 |-> 0]

\* C34: setTransmission(1.0) at a supported energy selects N_Nb = 0 and
\* N_Al = 0, and every pass commands each of the eight foils out of the beam.
C34_FullTransmissionAllOut ==
    (tTarget = TScale /\ EnergySupported(tEnergy) /\ tPasses > 0) =>
        /\ tSel = <<0, 0>>
        /\ tPattern = AllFoilsOut
        /\ tFoilCmds = 8 * tPasses

\* setTransmission(1.0) at 17 keV has returned with all foils out.
C34_Witness ==
    /\ tTarget = TScale
    /\ tEnergy = 17000
    /\ tOutcome = "returned"
    /\ tPasses = 1
    /\ filters = AllFoilsOut

\* ---------------------------------------------------------------------
\* The plan _changePipe
\* ---------------------------------------------------------------------
PlanPipeLoop == {"cp_toggleOn", "cp_toggleOff"}

\* C31: on hardware where each pump's status follows its own enable
\* command, the loop of _changePipe that waits for the pump 1 status to read
\* 0 is eventually left, with pump 1 disabled.
C31_Pump1LoopExits ==
    (plan = "changePipe" /\ pc \in PlanPipeLoop) ~>
        (pc \notin PlanPipeLoop /\ (result = "completed" => pump1_toggle = 0))

\* ---------------------------------------------------------------------
\* _actuate_open and _actuate_close
\* ---------------------------------------------------------------------
\* C32: a call of _actuate_open or _actuate_close issues at least one and
\* at most max_tries command writes, issues none after a read of Pos-Sts
\* returned the commanded state, and always ends, whatever the valve reports.
C32_ActuateBoundedWrites ==
    /\ [](vFn # "none" => /\ vWrites >= 1
                          /\ vWrites <= vMaxTries
                          /\ vLate = 0)
    /\ ((vpc # "idle") ~> (vpc = "idle"))

\* A call with the default max_tries has used all its writes on a valve that
\* never reported the commanded state, and has ended with the error message.
C32_Witness ==
    /\ vFn = "_actuate_close"
    /\ vpc = "idle"
    /\ vMaxTries = DefaultActuateTries
    /\ vWrites = DefaultActuateTries
    /\ ~vReached
    /\ vOutcome = "ERROR"

\* ==================================================================
\* Properties of the mode switches
\* ==================================================================
ModesSet == {"alignment", "measurement", "XR"}

\* C35: after any sequence of mode switches, current_mode is "undefined"
\* while a switch is in progress and after a switch that returned early
\* because the beamstop did not reach its position; it is "alignment",
\* "measurement" or "XR" only when the last switch ran to completion.
C35_ModeUndefinedUnlessCompleted ==
    /\ mpc # "idle" => current_mode = "undefined"
    /\ mEnded = "early" => current_mode = "undefined"
    /\ current_mode \in ModesSet => mEnded = "completed"

\* ==================================================================
\* Properties of the simulated Linkam controller
\* ==================================================================
\* C36: across any sequence of start_poller and shutdown calls, a shutdown
\* whose join times out included, at most one poller thread is running
\* and updating the temperature at any time.
C36_OnePoller ==
    Cardinality(Running) <= 1

\* A thread finishes a pass of its loop with the heater read as on.
PollerUpdates ==
    \E t \in Threads : lpc[t] = "update" /\ lpc'[t] = "loop"

\* A thread takes any step of its loop.
PollerActs ==
    \E t \in Threads : lpc[t] # "none" /\ (lpc'[t] # lpc[t] \/ ldiff'[t] # ldiff[t])

Distance == Abs(target_temp - current_temp)

\* C37: for any setpoint and ramp rate written by clients, each poller
\* step with the heater on moves the current temperature towards the
\* target by at most ramp_rate * 0.1 and never past it, so the distance to
\* the target never increases in a poller step.
C37_StepTowardsTarget ==
    [][PollerUpdates /\ heating =>
          /\ Distance' <= Distance
          /\ Abs(current_temp' - current_temp) <= Abs(ramp_rate)
          /\ (target_temp - current_temp) * (target_temp - current_temp') >= 0]_vars

\* The heater is on, one poller runs, the ramp rate is positive, nothing
\* is written by clients any more, and the step the poller has computed
\* stays within the temperatures followed.
Regulating ==
    /\ settled
    /\ heating
    /\ ramp_rate > 0
    /\ ~stop_poller
    /\ Cardinality(Running) = 1
    /\ \A t \in Running : current_temp + PollerStep(ldiff[t], ramp_rate) \in TempLow..TempHigh

\* C38: with the heater on, a running poller, a positive ramp rate and a
\* setpoint that is no longer changed, the current temperature eventually
\* comes within 0.1 of the setpoint and STATUS eventually becomes 1 and
\* stays 1.
C38_ReachesSetpoint ==
    Regulating ~> [](Distance <= AtTarget /\ status = StatusAtSetpoint)

\* The poller regulates towards a setpoint it has not reached.
C38_Witness ==
    /\ Regulating
    /\ Distance > NearTarget
    /\ status = StatusHeating

\* C39: while the heater is off the poller changes neither the current
\* temperature nor STATUS; they change only through client writes.
C39_HeaterOffPollerIdle ==
    [][PollerActs /\ ~heating => current_temp' = current_temp /\ status' = status]_vars

====
